---- MODULE Spec2Model ----
(***************************************************************************)
(* Model of the asymmetric (ECIES) encryption engine of chain-js:          *)
(* composeOptions, the curve dispatch, encryptWithPublicKey and            *)
(* decryptWithPrivateKey, with the helpers they call.                      *)
(*                                                                         *)
(* Representation of JavaScript values.                                    *)
(*  - enum-like and name fields (curveType, symmetricCypherType, scheme,   *)
(*    ...) are TLA+ strings; the strings "undefined" and "null" stand for  *)
(*    the JavaScript values undefined and null in those fields;            *)
(*  - values with content are tagged tuples, the tag first:                *)
(*      <<"undefined">>, <<"null">>, <<"str", chars>>, <<"buf", bytes>>,   *)
(*      <<"obj", fields>>;                                                 *)
(*  - a char is <<"c", codePoint>>; a byte is <<"b", n>> with n in 0..255; *)
(*  - the output of a cryptographic primitive of the platform (ECDH, hash, *)
(*    HMAC, AES) is a sequence of opaque bytes, each a tagged tuple that   *)
(*    names the primitive, its inputs and the byte's position: two opaque  *)
(*    bytes are equal exactly when they come from the same primitive with  *)
(*    the same inputs at the same position.                                *)
(***************************************************************************)
EXTENDS Integers, Sequences, FiniteSets, TLC

VARIABLES
    DefaultEciesOptions, \* the module-level default options object
    passedIn,            \* the objects a caller passed to the last call, before and after it
    composeIn,           \* composeOptions: the raw options of the last call
    composeOut,          \* composeOptions: what the last call returned
    encArgs,             \* encryptWithPublicKey: the arguments of the last call
    encOut,              \* encryptWithPublicKey: its outcome
    envelope,            \* the encrypted value on its way to the receiver
    tampered,            \* what was changed in the envelope on the way
    decArgs,             \* decryptWithPrivateKey: the arguments of the last call
    decOut,              \* decryptWithPrivateKey: its outcome
    equalRun,            \* equalConstTime: the run of a call, step by step
    wrapArgs,            \* encryptWithPublicKeys: the arguments of the last call
    wrapOut,             \* encryptWithPublicKeys: its outcome
    unwrapArgs,          \* decryptWithPrivateKeys: the arguments of the last call
    unwrapOut,           \* decryptWithPrivateKeys: its outcome
    signArgs,            \* sign: the arguments of the last call
    signOut,             \* sign: its outcome
    carried,             \* the message and signature on their way to the verifier
    altered,             \* what was changed in them on the way
    verifyArgs,          \* verifySignedWithPublicKey: the arguments of the last call
    verifyOut,           \* verifySignedWithPublicKey: its outcome
    checkIn,             \* isAsymEncryptedDataString: the value of the last call
    checkOut,            \* what the check and toAsymEncryptedDataString gave for it
    chain,               \* ChainEosV2: the chain state of the instance
    chainCall,           \* ChainEosV2: the last member used and its outcome
    actionHelper,        \* EosActionHelper: _actions, _raw and _header of the instance
    helperCall,          \* EosActionHelper: the last member used and its outcome
    ethAccount,          \* EthereumCreateAccount: the fields of the instance
    ethCall,             \* EthereumCreateAccount: the outcome of the last call
    oreIn,               \* ore_createAccount: the parameters of the last call
    oreOut,              \* ore_createAccount: the action composed and what it decomposes to
    dotAccount,          \* PolkadotCreateAccount: the fields of the instance
    dotCall              \* PolkadotCreateAccount: the outcome of the last call

composeVars == <<composeIn, composeOut>>
eciesVars == <<encArgs, encOut, envelope, tampered, decArgs, decOut>>

onionVars == <<wrapArgs, wrapOut, unwrapArgs, unwrapOut>>
signVars == <<signArgs, signOut, carried, altered, verifyArgs, verifyOut>>
checkVars == <<checkIn, checkOut>>
helperVars == <<equalRun, onionVars, signVars, checkVars>>

chainVars == <<chain, chainCall>>
actionVars == <<actionHelper, helperCall>>
ethVars == <<ethAccount, ethCall>>
oreVars == <<oreIn, oreOut>>
dotVars == <<dotAccount, dotCall>>
cryptoVars == <<DefaultEciesOptions, passedIn, composeVars, eciesVars, helperVars>>

vars == <<DefaultEciesOptions, passedIn, composeIn, composeOut,
          encArgs, encOut, envelope, tampered, decArgs, decOut, equalRun,
          wrapArgs, wrapOut, unwrapArgs, unwrapOut,
          signArgs, signOut, carried, altered, verifyArgs, verifyOut,
          checkIn, checkOut, chain, chainCall, actionHelper, helperCall,
          ethAccount, ethCall, oreIn, oreOut, dotAccount, dotCall>>

----------------------------------------------------------------------------
(* JavaScript values *)

Undef == "undefined"
NullS == "null"

Undefined == <<"undefined">>
Null == <<"null">>
Str(chars) == <<"str", chars>>
Buf(bytes) == <<"buf", bytes>>
Obj(fields) == <<"obj", fields>>

IsStr(v) == v[1] = "str"
IsBuf(v) == v[1] = "buf"
IsObj(v) == v[1] = "obj"

Chr(cp) == <<"c", cp>>
Byte(n) == <<"b", n>>
IsLitByte(b) == b[1] = "b"
IsLitChr(c) == c[1] = "c"

\* the text of an ASCII literal, given as its code points
Text(cps) == Str([i \in 1..Len(cps) |-> Chr(cps[i])])

EmptyFields == [f \in {} |-> Undef]

\* o[f], undefined when o has no own property f (a name field)
GetA(o, f) == IF f \in DOMAIN o THEN o[f] ELSE Undef
\* o[f], undefined when o has no own property f (a field with content)
GetV(o, f) == IF f \in DOMAIN o THEN o[f] ELSE Undefined

\* { ...a, ...b }
Spread(a, b) ==
    [f \in (DOMAIN a) \cup (DOMAIN b) |-> IF f \in DOMAIN b THEN b[f] ELSE a[f]]

\* const { <dropped>, ...rest } = o
Rest(o, dropped) == [f \in (DOMAIN o) \ dropped |-> o[f]]

\* o.f = v
Assign(o, f, v) == [g \in (DOMAIN o) \cup {f} |-> IF g = f THEN v ELSE o[g]]

\* truthiness of a name field
TruthyA(s) == s \notin {Undef, NullS, ""}

RECURSIVE Flatten(_)
Flatten(ss) == IF ss = <<>> THEN <<>> ELSE Head(ss) \o Flatten(Tail(ss))

----------------------------------------------------------------------------
(* Buffer <-> text conversions of the platform *)

\* value of a hex digit char code, -1 when the char is no hex digit
HexVal(cp) ==
    IF cp \in 48..57 THEN cp - 48
    ELSE IF cp \in 97..102 THEN cp - 87
    ELSE IF cp \in 65..70 THEN cp - 55
    ELSE -1

HexChar(v) == IF v < 10 THEN 48 + v ELSE 87 + v

\* buffer.toString('hex'), one byte
ByteToHex(b) ==
    IF IsLitByte(b)
    THEN <<Chr(HexChar(b[2] \div 16)), Chr(HexChar(b[2] % 16))>>
    ELSE << <<"hx", b, 0>>, <<"hx", b, 1>> >>

\* buffer.toString('hex')
BufferToHex(bytes) == Flatten([i \in 1..Len(bytes) |-> ByteToHex(bytes[i])])

IsHexChr(c) == IF IsLitChr(c) THEN HexVal(c[2]) >= 0 ELSE c[1] = "hx"

\* the byte two hex chars stand for
HexPair(c1, c2) ==
    IF IsLitChr(c1) /\ IsLitChr(c2) THEN Byte(16 * HexVal(c1[2]) + HexVal(c2[2]))
    ELSE IF c1[1] = "hx" /\ c2[1] = "hx" /\ c1[3] = 0 /\ c2[3] = 1 /\ c1[2] = c2[2]
         THEN c1[2]
    ELSE <<"hxpair", c1, c2>>

\* Buffer.from(text, 'hex'): decoding stops at the first pair that is not two
\* hex digits; an odd trailing char is dropped
RECURSIVE HexDecode(_)
HexDecode(chars) ==
    IF Len(chars) < 2 THEN <<>>
    ELSE IF ~(IsHexChr(chars[1]) /\ IsHexChr(chars[2])) THEN <<>>
    ELSE <<HexPair(chars[1], chars[2])>> \o HexDecode(SubSeq(chars, 3, Len(chars)))

\* Buffer.from(text, 'utf8'), one char
ChrToUtf8(c) ==
    IF ~IsLitChr(c) THEN << <<"u8", c>> >>
    ELSE LET cp == c[2] IN
         IF cp < 128 THEN <<Byte(cp)>>
         ELSE IF cp < 2048 THEN <<Byte(192 + (cp \div 64)), Byte(128 + (cp % 64))>>
         ELSE IF cp \in 55296..57343
              THEN <<Byte(239), Byte(191), Byte(189)>>  \* a lone surrogate
         ELSE <<Byte(224 + (cp \div 4096)), Byte(128 + ((cp \div 64) % 64)),
                Byte(128 + (cp % 64))>>

\* Buffer.from(text, 'utf8')
Utf8Encode(chars) == Flatten([i \in 1..Len(chars) |-> ChrToUtf8(chars[i])])

IsCont(b) == IsLitByte(b) /\ b[2] \in 128..191

\* buffer.toString(): utf8 decoding, an ill-formed byte becomes U+FFFD
RECURSIVE Utf8Decode(_)
Utf8Decode(bytes) ==
    IF bytes = <<>> THEN <<>>
    ELSE LET b == bytes[1]
             n == Len(bytes)
         IN IF ~IsLitByte(b)
            THEN <<(IF b[1] = "u8" THEN b[2] ELSE <<"chr", b>>)>>
                     \o Utf8Decode(Tail(bytes))
            ELSE IF b[2] < 128
            THEN <<Chr(b[2])>> \o Utf8Decode(Tail(bytes))
            ELSE IF b[2] \in 194..223 /\ n >= 2 /\ IsCont(bytes[2])
            THEN <<Chr((b[2] - 192) * 64 + (bytes[2][2] - 128))>>
                     \o Utf8Decode(SubSeq(bytes, 3, n))
            ELSE IF b[2] \in 224..239 /\ n >= 3 /\ IsCont(bytes[2]) /\ IsCont(bytes[3])
                    /\ (b[2] - 224) * 4096 + (bytes[2][2] - 128) * 64 >= 2048
            THEN <<Chr((b[2] - 224) * 4096 + (bytes[2][2] - 128) * 64
                        + (bytes[3][2] - 128))>>
                     \o Utf8Decode(SubSeq(bytes, 4, n))
            ELSE <<Chr(65533)>> \o Utf8Decode(Tail(bytes))

----------------------------------------------------------------------------
(* helpers of the repository *)

\* isNullOrEmpty(value)
isNullOrEmpty(v) ==
    \/ v = Undefined
    \/ v = Null
    \/ (IsStr(v) \/ IsBuf(v)) /\ Len(v[2]) = 0

----------------------------------------------------------------------------
(* asymmetric.ts: options *)

Sha256 == "sha256"
Sha512 == "sha512"
Aes128Ecb == "aes-128-ecb"
Aes256Ctr == "aes-256-ctr"
Secp256k1 == "secp256k1"
Ed25519 == "ed25519"

DEFAULT_SECP256K1_ASYMMETRIC_SCHEME_NAME == "asym.chainjs.secp256k1"
DEFAULT_ED25519_ASYMMETRIC_SCHEME_NAME == "asym.chainjs.ed25519"

InitialDefaultEciesOptions ==
    [hashCypherType |-> Sha256,
     macCipherType |-> Sha256,
     curveType |-> Secp256k1,
     symmetricCypherType |-> Aes128Ecb,
     keyFormat |-> "uncompressed"]

emptyBuffer == <<>>

CtrIvLength == 16

\* emptyBufferForIv(symmetricCypherType)
\* emptyBufferForIv without the case of aes-256-ctr
EmptyIvForEveryCipher(symmetricCypherType) == emptyBuffer

emptyBufferForIv(symmetricCypherType) ==
    IF symmetricCypherType = Aes256Ctr
    THEN [i \in 1..CtrIvLength |-> Byte(0)]
    ELSE emptyBuffer

\* composeOptions: iv as a Buffer, or null or undefined
ResolveIv(ivIn, symmetricCypherType) ==
    IF ~isNullOrEmpty(ivIn) THEN Buf(HexDecode(ivIn[2]))
    ELSE IF ivIn = Undefined THEN Buf(emptyBufferForIv(symmetricCypherType))
    ELSE IF ivIn = Null THEN Null
    ELSE Undefined  \* let iv: never assigned

\* s1 and s2 left unset when the caller gives none
ContextLeftUnset(sIn) ==
    IF ~isNullOrEmpty(sIn) THEN Buf(Utf8Encode(sIn[2])) ELSE Undefined

\* composeOptions: s1 and s2 as Buffers
ResolveContext(sIn) ==
    IF ~isNullOrEmpty(sIn) THEN Buf(Utf8Encode(sIn[2])) ELSE Buf(emptyBuffer)

\* composeOptions(optionsIn): the options as buffers
composeOptions(optionsIn) ==
    LET opts == IF IsObj(optionsIn) THEN optionsIn[2] ELSE EmptyFields
        s1In == GetV(opts, "s1")
        s2In == GetV(opts, "s2")
        otherOptions == Rest(opts, {"s1", "s2"})
        ivIn0 == GetV(opts, "iv")
        merged == Spread(DefaultEciesOptions, otherOptions)
        unset == GetA(merged, "symmetricCypherType") = Undef
        newOptions ==
            IF unset
            THEN Assign(merged, "symmetricCypherType",
                        GetA(DefaultEciesOptions, "symmetricCypherType"))
            ELSE merged
        ivIn == IF unset THEN Undefined ELSE ivIn0
        iv == ResolveIv(ivIn, GetA(newOptions, "symmetricCypherType"))
        s1 == ResolveContext(s1In)
        s2 == ResolveContext(s2In)
    IN Assign(Assign(Assign(newOptions, "iv", iv), "s1", s1), "s2", s2)

\* the defaults are changed in place instead of being copied
SpreadIntoDefaults == "DefaultEciesOptions"

\* composeOptions: the object its assignments go to, a new one made of the
\* defaults and of the caller's options
NewOptionsObject == "newOptions"

\* DefaultEciesOptions after a call of composeOptions(optionsIn)
DefaultsAfterCompose(optionsIn) ==
    IF NewOptionsObject = "DefaultEciesOptions" THEN composeOptions(optionsIn)
    ELSE DefaultEciesOptions

\* the caller's options object after a call of composeOptions(optionsIn)
OptionsAfterCompose(optionsIn) ==
    IF NewOptionsObject = "optionsIn" /\ IsObj(optionsIn)
    THEN Obj(composeOptions(optionsIn))
    ELSE optionsIn


----------------------------------------------------------------------------
(* the platform's cryptographic primitives, as opaque functions *)

\* half the length of a sha256 digest, in bytes of the model: an aes-128 key
DigestHalf == 1
\* the length of a key of the model, in bytes
KeyBytes == 1

HashLength(cypherName) == IF cypherName = Sha512 THEN 4 * DigestHalf ELSE 2 * DigestHalf
KeyLength(cypherName) == IF cypherName = Aes256Ctr THEN 2 * DigestHalf ELSE DigestHalf
IvLength(cypherName) == IF cypherName = Aes256Ctr THEN 16 ELSE 0
IsStreamCipher(cypherName) == cypherName = Aes256Ctr
\* the block of the padded ciphers, in bytes of the model
BlockLength == 2

\* key pairs: the owner of a key is <<"k", n>> (a recipient) or <<"e", n>> (an
\* ephemeral pair made for one encryption)
Recipient(n) == <<"k", n>>
Ephemeral(n) == <<"e", n>>
PublicKeyBytes(owner) == [i \in 1..KeyBytes |-> <<"pk", owner, i>>]
PrivateKeyBytes(owner) == [i \in 1..KeyBytes |-> <<"sk", owner, i>>]

OwnerOfPublic(bytes) ==
    IF bytes # <<>> /\ bytes[1][1] = "pk" /\ bytes = PublicKeyBytes(bytes[1][2])
    THEN bytes[1][2] ELSE <<"x", bytes>>
OwnerOfPrivate(bytes) ==
    IF bytes # <<>> /\ bytes[1][1] = "sk" /\ bytes = PrivateKeyBytes(bytes[1][2])
    THEN bytes[1][2] ELSE <<"x", bytes>>

\* Diffie-Hellman: the secret of a private key and a public key depends on the
\* two owners only, not on which of the two gave the private key
DiffieHellman(curveType, a, b) ==
    [i \in 1..KeyBytes |-> <<"dh", curveType, {a, b}, i>>]

\* encodeBase64(bytes) / decodeBase64(text) of tweetnacl-util
Base64Encode(bytes) == [j \in 1..(4 * ((Len(bytes) + 2) \div 3)) |-> <<"b64", bytes, j>>]
Base64Valid(chars) ==
    chars = <<>> \/ (chars[1][1] = "b64" /\ chars = Base64Encode(chars[1][2]))
Base64Decode(chars) == IF chars = <<>> THEN <<>> ELSE chars[1][2]

\* Buffer.from(value, encoding): a buffer is copied, whatever the encoding
BufferFrom(v, encoding) ==
    IF IsBuf(v) THEN v[2]
    ELSE IF encoding = "hex" THEN HexDecode(v[2])
    ELSE Utf8Encode(v[2])

\* crypto.createHash(cypherName).update(message).digest()
generateMessageHash(cypherName, message) ==
    [i \in 1..HashLength(cypherName) |-> <<"hash", cypherName, message, i>>]

\* crypto.createHmac(cypherName, key).update(message).digest()
generateMessageMac(cypherName, key, message) ==
    [i \in 1..HashLength(cypherName) |-> <<"hmac", cypherName, key, message, i>>]

\* a caller's customMessageKeyGenerator and customMacGenerator
CustomKeys(sharedSecret, s1, ephemBuffer) ==
    [cipherKey |-> [i \in 1..DigestHalf |-> <<"ck", sharedSecret, s1, ephemBuffer, i>>],
     macKey |-> [i \in 1..DigestHalf |-> <<"mk", sharedSecret, s1, ephemBuffer, i>>]]
CustomMac(macKey, s2, cipherText) ==
    [i \in 1..DigestHalf |-> <<"cmac", macKey, s2, cipherText, i>>]

CipherTextLength(cypherName, n) ==
    IF IsStreamCipher(cypherName) THEN n ELSE ((n \div BlockLength) + 1) * BlockLength

\* the bytes cipher.update(plaintext) + cipher.final() give; keying is "iv" for
\* createCipheriv and "password" for the deprecated createCipher
CipherBytes(cypherName, keying, key, iv, plaintext) ==
    [i \in 1..CipherTextLength(cypherName, Len(plaintext)) |->
        <<"enc", cypherName, keying, key, iv, plaintext, i>>]

\* what createCipheriv / createDecipheriv throw for a key or iv of the wrong length
CipherivError(cypherName, key, iv) ==
    IF Len(key) # KeyLength(cypherName) THEN "Invalid key length"
    ELSE IF Len(iv) # IvLength(cypherName) THEN "Invalid IV length"
    ELSE "none"

NoCipher == [fn |-> "none", cypherName |-> Undef, iv |-> Undefined]

----------------------------------------------------------------------------
(* asymmetric.ts: the engine *)

\* symmetricEncrypt(cypherName, iv, key, plaintext)
symmetricEncrypt(cypherName, iv, key, plaintext) ==
    IF iv = Undefined
    THEN [status |-> "ok", error |-> "none",
          bytes |-> CipherBytes(cypherName, "password", key, emptyBuffer, plaintext),
          call |-> [fn |-> "createCipher", cypherName |-> cypherName, iv |-> Undefined]]
    ELSE LET useIv == IF iv = Null THEN emptyBuffer ELSE iv[2]
             err == CipherivError(cypherName, key, useIv)
         IN [status |-> IF err = "none" THEN "ok" ELSE "throw",
             error |-> err,
             bytes |-> CipherBytes(cypherName, "iv", key, useIv, plaintext),
             call |-> [fn |-> "createCipheriv", cypherName |-> cypherName,
                       iv |-> Buf(useIv)]]

\* what decipher.update(ciphertext) + decipher.final() give
Deciphered(cypherName, keying, key, iv, ciphertext) ==
    IF ciphertext = <<>>
    THEN [status |-> IF IsStreamCipher(cypherName) THEN "ok" ELSE "throw",
          error |-> IF IsStreamCipher(cypherName) THEN "none" ELSE "bad decrypt",
          bytes |-> <<>>]
    ELSE IF ciphertext[1][1] = "enc"
            /\ ciphertext = CipherBytes(cypherName, keying, key, iv, ciphertext[1][6])
    THEN [status |-> "ok", error |-> "none", bytes |-> ciphertext[1][6]]
    ELSE IF IsStreamCipher(cypherName)
    THEN [status |-> "ok", error |-> "none",
          bytes |-> [i \in 1..Len(ciphertext) |->
                       <<"dec", cypherName, keying, key, iv, ciphertext, i>>]]
    ELSE [status |-> "throw", error |-> "bad decrypt", bytes |-> <<>>]

\* symmetricDecrypt(cypherName, iv, key, ciphertext)
symmetricDecrypt(cypherName, iv, key, ciphertext) ==
    IF iv = Undefined
    THEN Deciphered(cypherName, "password", key, emptyBuffer, ciphertext)
    ELSE LET useIv == IF iv = Null THEN emptyBuffer ELSE iv[2]
             err == CipherivError(cypherName, key, useIv)
         IN IF err # "none"
            THEN [status |-> "throw", error |-> err, bytes |-> <<>>]
            ELSE Deciphered(cypherName, "iv", key, useIv, ciphertext)

RECURSIVE BitXor(_, _)
BitXor(a, b) ==
    IF a = 0 THEN b ELSE IF b = 0 THEN a
    ELSE ((a + b) % 2) + 2 * BitXor(a \div 2, b \div 2)

RECURSIVE BitOr(_, _)
BitOr(a, b) ==
    IF a = 0 THEN b ELSE IF b = 0 THEN a
    ELSE (IF a % 2 = 1 \/ b % 2 = 1 THEN 1 ELSE 0) + 2 * BitOr(a \div 2, b \div 2)

RECURSIVE Pow2(_)
Pow2(k) == IF k = 0 THEN 1 ELSE 2 * Pow2(k - 1)

\* a byte with bit k changed
FlipBit(b, k) ==
    IF IsLitByte(b) THEN Byte(BitXor(b[2], Pow2(k)))
    ELSE IF b[1] = "flip" /\ b[3] = k THEN b[2]
    ELSE <<"flip", b, k>>

\* b1[i] ^ b2[i]; two different opaque bytes differ in some bit
XorBytes(x, y) ==
    IF IsLitByte(x) /\ IsLitByte(y) THEN BitXor(x[2], y[2])
    ELSE IF x = y THEN 0
    ELSE IF x[1] = "flip" /\ x[2] = y THEN Pow2(x[3])
    ELSE IF y[1] = "flip" /\ y[2] = x THEN Pow2(y[3])
    ELSE 1

\* the loop of equalConstTime from index i on, result so far in acc
RECURSIVE EqualLoop(_, _, _, _)
EqualLoop(b1, b2, i, acc) ==
    IF i > Len(b1) THEN acc
    ELSE EqualLoop(b1, b2, i + 1, BitOr(acc, XorBytes(b1[i], b2[i])))

\* equalConstTime with result = b1[i] ^ b2[i] in place of result |= ...
EqualOnLastByte(b1, b2) ==
    IF Len(b1) # Len(b2) THEN FALSE
    ELSE IF Len(b1) = 0 THEN TRUE
    ELSE XorBytes(b1[Len(b1)], b2[Len(b2)]) = 0

\* equalConstTime with a loop that leaves out the first byte
EqualFromSecondByte(b1, b2) ==
    IF Len(b1) # Len(b2) THEN FALSE
    ELSE EqualLoop(b1, b2, 2, 0) = 0

\* equalConstTime(b1, b2)
equalConstTime(b1, b2) ==
    IF Len(b1) # Len(b2) THEN FALSE
    ELSE EqualLoop(b1, b2, 1, 0) = 0

\* getDefaultScheme that knows one curve only
DefaultSchemeOfOneCurve(curveType) == DEFAULT_SECP256K1_ASYMMETRIC_SCHEME_NAME

\* getDefaultScheme(curveType)
getDefaultScheme(curveType) ==
    IF curveType = Ed25519 THEN DEFAULT_ED25519_ASYMMETRIC_SCHEME_NAME
    ELSE IF curveType = Secp256k1 THEN DEFAULT_SECP256K1_ASYMMETRIC_SCHEME_NAME
    ELSE NullS

\* a || b || c of name values
OrElse(a, b) == IF TruthyA(a) THEN a ELSE b

\* diffieHellman.ts: generateEphemPublicKeyAndSharedSecretType1
generateEphemPublicKeyAndSharedSecretType1(publicKey, curveType, ephem) ==
    [ephemPublicKey |-> Buf(PublicKeyBytes(Ephemeral(ephem))),
     sharedSecret |-> DiffieHellman(curveType, Ephemeral(ephem), OwnerOfPublic(publicKey))]

\* the ed25519 helper giving the base64 text itself, not a buffer of it
EphemPublicKeyAsText(publicKey, ephem) ==
    [ephemPublicKey |-> Str(Base64Encode(PublicKeyBytes(Ephemeral(ephem)))),
     sharedSecret |-> DiffieHellman(Ed25519, Ephemeral(ephem), OwnerOfPublic(publicKey))]

\* diffieHellman.ts: generateEphemPublicKeyAndSharedSecretEd25519: the ephemeral
\* public key is given as its base64 text
generateEphemPublicKeyAndSharedSecretEd25519(publicKey, ephem) ==
    [ephemPublicKey |-> Buf(Utf8Encode(Base64Encode(PublicKeyBytes(Ephemeral(ephem))))),
     sharedSecret |-> DiffieHellman(Ed25519, Ephemeral(ephem), OwnerOfPublic(publicKey))]

\* diffieHellman.ts: generateSharedSecretType1
generateSharedSecretType1(publicKey, privateKey, curveType) ==
    DiffieHellman(curveType, OwnerOfPublic(publicKey), OwnerOfPrivate(privateKey))

\* diffieHellman.ts: generateSharedSecretEd25519
generateSharedSecretEd25519(publicKey, privateKey) ==
    DiffieHellman(Ed25519, OwnerOfPublic(publicKey), OwnerOfPrivate(privateKey))

\* generateSharedSecretAndEphemPublicKey(publicKey, curveType, keyFormat)
generateSharedSecretAndEphemPublicKey(publicKey, curveType, ephem) ==
    LET r1 == generateEphemPublicKeyAndSharedSecretType1(publicKey, curveType, ephem)
        r2 == generateEphemPublicKeyAndSharedSecretEd25519(publicKey, ephem)
    IN IF curveType = Ed25519
       THEN [status |-> "ok", error |-> "none", agreed |-> TRUE,
             ephemPublicKey |-> r2.ephemPublicKey, sharedSecret |-> Buf(r2.sharedSecret)]
       ELSE IF curveType = Secp256k1
       THEN [status |-> "ok", error |-> "none", agreed |-> TRUE,
             ephemPublicKey |-> r1.ephemPublicKey, sharedSecret |-> Buf(r1.sharedSecret)]
       ELSE [status |-> "throw", error |-> "Not supported CurveType", agreed |-> FALSE,
             ephemPublicKey |-> Undefined, sharedSecret |-> Undefined]

\* generateSharedSecretUsingPrivateKey without decodeBase64 on the ed25519 branch
SharedSecretFromEncodedKey(privateKey, ephemPublicKey, curveType) ==
    LET ephemPublicKeyBuffer == HexDecode(ephemPublicKey[2])
    IN IF curveType = Secp256k1
       THEN [status |-> "ok", error |-> "none", agreed |-> TRUE,
             agreementKey |-> ephemPublicKeyBuffer,
             sharedSecret |->
                Buf(generateSharedSecretType1(ephemPublicKeyBuffer, privateKey, curveType))]
       ELSE IF curveType = Ed25519
       THEN [status |-> "ok", error |-> "none", agreed |-> TRUE,
             agreementKey |-> ephemPublicKeyBuffer,
             sharedSecret |->
                Buf(generateSharedSecretEd25519(ephemPublicKeyBuffer, privateKey))]
       ELSE [status |-> "ok", error |-> "none", agreed |-> FALSE,
             agreementKey |-> <<>>, sharedSecret |-> Undefined]

\* generateSharedSecretUsingPrivateKey(privateKey, ephemPublicKey, curveType);
\* agreementKey is the public key handed to the key agreement of the curve
generateSharedSecretUsingPrivateKey(privateKey, ephemPublicKey, curveType) ==
    LET ephemPublicKeyBuffer == HexDecode(ephemPublicKey[2])
        base64 == Utf8Decode(ephemPublicKeyBuffer)
    IN IF curveType = Secp256k1
       THEN [status |-> "ok", error |-> "none", agreed |-> TRUE,
             agreementKey |-> ephemPublicKeyBuffer,
             sharedSecret |->
                Buf(generateSharedSecretType1(ephemPublicKeyBuffer, privateKey, curveType))]
       ELSE IF curveType = Ed25519
       THEN IF Base64Valid(base64)
            THEN [status |-> "ok", error |-> "none", agreed |-> TRUE,
                  agreementKey |-> Base64Decode(base64),
                  sharedSecret |->
                     Buf(generateSharedSecretEd25519(Base64Decode(base64), privateKey))]
            ELSE [status |-> "throw", error |-> "invalid encoding", agreed |-> FALSE,
                  agreementKey |-> <<>>, sharedSecret |-> Undefined]
       ELSE [status |-> "ok", error |-> "none", agreed |-> FALSE,
             agreementKey |-> <<>>, sharedSecret |-> Undefined]

\* no cipher key and MAC key yet
NoKeys ==
    [derived |-> FALSE, sharedSecret |-> Undefined, s1 |-> <<>>, ephemBuffer |-> <<>>,
     cipherKey |-> <<>>, macKey |-> <<>>]

\* how a call ends: what it throws or returns, the steps it took, in order, the
\* symmetric cipher it created, and the stored and recomputed mac it compared
Thrown(err, trace, cipher, macs) ==
    [status |-> "throw", error |-> err, value |-> Undefined, trace |-> trace,
     cipher |-> cipher, macs |-> macs, keys |-> NoKeys]
Returned(v, trace, cipher, macs) ==
    [status |-> "ok", error |-> "none", value |-> v, trace |-> trace, cipher |-> cipher,
     macs |-> macs, keys |-> NoKeys]

\* the outcome of a call that got as far as its cipher key and MAC key
WithKeys(outcome, sharedSecret, s1, ephemBuffer, keys) ==
    [outcome EXCEPT !.keys =
        [derived |-> TRUE, sharedSecret |-> sharedSecret, s1 |-> s1,
         ephemBuffer |-> ephemBuffer, cipherKey |-> keys.cipherKey,
         macKey |-> keys.macKey]]

\* the scheme comparison made only when a scheme was resolved
SchemeMismatchWhenResolved(encryptedScheme, scheme) ==
    TruthyA(encryptedScheme) /\ TruthyA(scheme) /\ scheme # encryptedScheme

\* decryptWithPrivateKey without the scheme comparison
SchemeNeverCompared(encryptedScheme, scheme) == FALSE

\* decryptWithPrivateKey comparing the schemes whether the envelope names one or not
SchemeMismatchUnconditional(encryptedScheme, scheme) == scheme # encryptedScheme

\* decryptWithPrivateKey: the envelope names a scheme other than the resolved one
SchemeMismatch(encryptedScheme, scheme) ==
    TruthyA(encryptedScheme) /\ scheme # encryptedScheme

\* decryptWithPrivateKey without the comparison of the two macs
MacNeverCompared(mac, compareMac) == FALSE

\* decryptWithPrivateKey: the stored mac is not the recomputed one
MacMismatch(mac, compareMac) == ~equalConstTime(mac, compareMac)

\* the key derivation with the two halves of the hash taken the other way round
MessageKeysSwapped(customMessageKeyGenerator, hashCypherType, sharedSecret, s1, ephemBuffer) ==
    IF TruthyA(customMessageKeyGenerator)
    THEN CustomKeys(sharedSecret, s1, ephemBuffer)
    ELSE LET hash == generateMessageHash(hashCypherType,
                                         sharedSecret[2] \o s1 \o ephemBuffer)
         IN [cipherKey |-> SubSeq(hash, (Len(hash) \div 2) + 1, Len(hash)),
             macKey |-> SubSeq(hash, 1, Len(hash) \div 2)]

\* the cipher key and MAC key of a call
MessageKeys(customMessageKeyGenerator, hashCypherType, sharedSecret, s1, ephemBuffer) ==
    IF TruthyA(customMessageKeyGenerator)
    THEN CustomKeys(sharedSecret, s1, ephemBuffer)
    ELSE LET hash == generateMessageHash(hashCypherType,
                                         sharedSecret[2] \o s1 \o ephemBuffer)
         IN [cipherKey |-> SubSeq(hash, 1, Len(hash) \div 2),
             macKey |-> SubSeq(hash, (Len(hash) \div 2) + 1, Len(hash))]

\* the tag computed by the default HMAC, whatever the caller supplied
MessageMacByDefault(customMacGenerator, macCipherType, macKey, s2, cipherText) ==
    generateMessageMac(macCipherType, macKey, cipherText \o s2)

\* the tag of a ciphertext
MessageMac(customMacGenerator, macCipherType, macKey, s2, cipherText) ==
    IF TruthyA(customMacGenerator)
    THEN CustomMac(macKey, s2, cipherText)
    ELSE generateMessageMac(macCipherType, macKey, cipherText \o s2)

KeysStep(customMessageKeyGenerator) ==
    IF TruthyA(customMessageKeyGenerator) THEN "customMessageKeyGenerator"
    ELSE "generateMessageHash"
MacStep(customMacGenerator) ==
    IF TruthyA(customMacGenerator) THEN "customMacGenerator" ELSE "generateMessageMac"

\* a missing custom scheme taken for an empty one
DestructuredOrEmpty(customAsymScheme) ==
    [done |-> TRUE,
     fields |-> IF IsObj(customAsymScheme) THEN customAsymScheme[2] ELSE EmptyFields]

\* const { scheme, customMessageKeyGenerator, customMacGenerator } = customAsymScheme:
\* the fields of an object; undefined and null cannot be destructured
Destructured(customAsymScheme) ==
    [done |-> IsObj(customAsymScheme),
     fields |-> IF IsObj(customAsymScheme) THEN customAsymScheme[2] ELSE EmptyFields]

\* encryptWithPublicKey(publicKey, plainText, options, customAsymScheme); ephem is
\* the ephemeral key pair the key agreement generates
encryptWithPublicKey(publicKey, plainText, options, customAsymScheme, ephem) ==
    IF ~Destructured(customAsymScheme).done
    THEN Thrown("TypeError", <<>>, NoCipher, <<>>)
    ELSE
    LET customScheme == GetA(Destructured(customAsymScheme).fields, "scheme")
        customMessageKeyGenerator ==
            GetA(Destructured(customAsymScheme).fields, "customMessageKeyGenerator")
        customMacGenerator == GetA(Destructured(customAsymScheme).fields, "customMacGenerator")
        useOptions == composeOptions(options)
        publicKeyBuffer == HexDecode(publicKey[2])
        agreement == generateSharedSecretAndEphemPublicKey(
                         publicKeyBuffer, GetA(useOptions, "curveType"), ephem)
        t1 == <<"composeOptions", "generateSharedSecretAndEphemPublicKey">>
    IN
    IF agreement.status = "throw"
    THEN Thrown(agreement.error, t1, NoCipher, <<>>)
    ELSE
    LET ephemPublicKey == agreement.ephemPublicKey
        sharedSecret == agreement.sharedSecret
        ephemBuffer == BufferFrom(ephemPublicKey, "hex")
        keys == MessageKeys(customMessageKeyGenerator, GetA(useOptions, "hashCypherType"),
                            sharedSecret, useOptions.s1[2], ephemBuffer)
        t2 == t1 \o <<"keyAgreement", KeysStep(customMessageKeyGenerator)>>
        encrypted == symmetricEncrypt(GetA(useOptions, "symmetricCypherType"),
                                      useOptions.iv, keys.cipherKey,
                                      Utf8Encode(plainText[2]))
        t3 == t2 \o <<"symmetricEncrypt">>
    IN
    IF encrypted.status = "throw"
    THEN WithKeys(Thrown(encrypted.error, t3, encrypted.call, <<>>),
                  sharedSecret, useOptions.s1[2], ephemBuffer, keys)
    ELSE
    LET cipherText == encrypted.bytes
        mac == MessageMac(customMacGenerator, GetA(useOptions, "macCipherType"),
                          keys.macKey, useOptions.s2[2], cipherText)
        result ==
            [iv |-> IF ~isNullOrEmpty(useOptions.iv)
                    THEN Str(BufferToHex(useOptions.iv[2])) ELSE Null,
             publicKey |-> publicKey,
             ephemPublicKey |-> Str(BufferToHex(BufferFrom(ephemPublicKey, "utf8"))),
             ciphertext |-> Str(BufferToHex(cipherText)),
             mac |-> Str(BufferToHex(mac))]
        scheme == OrElse(customScheme,
                         OrElse(GetA(useOptions, "scheme"),
                                getDefaultScheme(GetA(useOptions, "curveType"))))
    IN WithKeys(
           Returned(Obj(IF TruthyA(scheme) THEN Assign(result, "scheme", scheme) ELSE result),
                    t3 \o <<MacStep(customMacGenerator)>>, encrypted.call, <<>>),
           sharedSecret, useOptions.s1[2], ephemBuffer, keys)

\* the keys of an encrypted value, in the order JSON.stringify writes them
EnvelopeKeys == <<"iv", "publicKey", "ephemPublicKey", "ciphertext", "mac", "scheme">>

KeysOf(fields) == SelectSeq(EnvelopeKeys, LAMBDA k : k \in DOMAIN fields)

\* JSON.stringify(object): the text of an object, a piece for each of its keys
JsonStringify(object) ==
    LET keys == KeysOf(object[2]) IN
    Str([j \in 1..Len(keys) |->
            <<"json", keys[j],
              IF keys[j] = "scheme" THEN <<"name", object[2][keys[j]]>>
              ELSE object[2][keys[j]]>>])

\* the text is what JSON.stringify writes for some object
IsJsonText(chars) ==
    /\ chars # <<>>
    /\ \A j \in 1..Len(chars) : chars[j][1] = "json"
    /\ \A j, k \in 1..Len(chars) : chars[j][2] = chars[k][2] => j = k

\* JSON.parse(text) of such a text
JsonParse(chars) ==
    Obj([key \in {chars[j][2] : j \in 1..Len(chars)} |->
            LET j == CHOOSE j \in 1..Len(chars) : chars[j][2] = key IN
            IF key = "scheme" THEN chars[j][3][2] ELSE chars[j][3]])

\* genericCryptoHelpers.ts: ensureEncryptedValueIsObject, for an object or the text
\* of one
ensureEncryptedValueIsObject(encrypted) ==
    IF IsObj(encrypted) THEN encrypted[2] ELSE JsonParse(encrypted[2])[2]

\* decryptWithPrivateKey deciphering under the iv of its composed options instead of
\* the iv of the encrypted value
DecryptUnderOptionsIv(encrypted, privateKey, options, customAsymScheme) ==
    IF ~Destructured(customAsymScheme).done
    THEN Thrown("TypeError", <<>>, NoCipher, <<>>)
    ELSE
    LET customScheme == GetA(Destructured(customAsymScheme).fields, "scheme")
        customMessageKeyGenerator ==
            GetA(Destructured(customAsymScheme).fields, "customMessageKeyGenerator")
        customMacGenerator == GetA(Destructured(customAsymScheme).fields, "customMacGenerator")
        useOptions == composeOptions(options)
        encryptedObject == ensureEncryptedValueIsObject(encrypted)
        cipherText == HexDecode(encryptedObject.ciphertext[2])
        iv == useOptions.iv
        mac == HexDecode(encryptedObject.mac[2])
        privateKeyBuffer == HexDecode(privateKey[2])
        agreement == generateSharedSecretUsingPrivateKey(
                         privateKeyBuffer, encryptedObject.ephemPublicKey,
                         GetA(useOptions, "curveType"))
        t1 == <<"composeOptions", "ensureEncryptedValueIsObject",
                "generateSharedSecretUsingPrivateKey">>
             \o (IF agreement.agreed THEN <<"keyAgreement">> ELSE <<>>)
    IN
    IF agreement.status = "throw"
    THEN Thrown(agreement.error, t1, NoCipher, <<>>)
    ELSE
    LET sharedSecret == agreement.sharedSecret
        ephemBuffer == HexDecode(encryptedObject.ephemPublicKey[2])
        scheme == OrElse(customScheme,
                         OrElse(GetA(useOptions, "scheme"),
                                getDefaultScheme(GetA(useOptions, "curveType"))))
    IN
    IF SchemeMismatch(GetA(encryptedObject, "scheme"), scheme)
    THEN Thrown("scheme does not match", t1, NoCipher, <<>>)
    ELSE IF ~TruthyA(customMessageKeyGenerator) /\ sharedSecret = Undefined
    THEN Thrown("TypeError", t1, NoCipher, <<>>)  \* sharedSecret.length of undefined
    ELSE
    LET keys == MessageKeys(customMessageKeyGenerator, GetA(useOptions, "hashCypherType"),
                            sharedSecret, useOptions.s1[2], ephemBuffer)
        compareMac == MessageMac(customMacGenerator, GetA(useOptions, "macCipherType"),
                                 keys.macKey, useOptions.s2[2], cipherText)
        t2 == t1 \o <<KeysStep(customMessageKeyGenerator), MacStep(customMacGenerator),
                      "equalConstTime">>
    IN
    IF MacMismatch(mac, compareMac)
    THEN WithKeys(Thrown("mac does not match", t2, NoCipher, <<mac, compareMac>>),
                  sharedSecret, useOptions.s1[2], ephemBuffer, keys)
    ELSE
    LET cypherName == GetA(useOptions, "symmetricCypherType")
        decrypted == symmetricDecrypt(cypherName, iv, keys.cipherKey, cipherText)
        cipher == [fn |-> "createDecipheriv", cypherName |-> cypherName, iv |-> iv]
        t3 == t2 \o <<"symmetricDecrypt">>
    IN WithKeys(
           IF decrypted.status = "throw"
           THEN Thrown(decrypted.error, t3, cipher, <<mac, compareMac>>)
           ELSE Returned(Str(Utf8Decode(decrypted.bytes)), t3, cipher, <<mac, compareMac>>),
           sharedSecret, useOptions.s1[2], ephemBuffer, keys)

\* decryptWithPrivateKey(encrypted, privateKey, options, customAsymScheme)
decryptWithPrivateKey(encrypted, privateKey, options, customAsymScheme) ==
    IF ~Destructured(customAsymScheme).done
    THEN Thrown("TypeError", <<>>, NoCipher, <<>>)
    ELSE
    LET customScheme == GetA(Destructured(customAsymScheme).fields, "scheme")
        customMessageKeyGenerator ==
            GetA(Destructured(customAsymScheme).fields, "customMessageKeyGenerator")
        customMacGenerator == GetA(Destructured(customAsymScheme).fields, "customMacGenerator")
        useOptions == composeOptions(options)
        encryptedObject == ensureEncryptedValueIsObject(encrypted)
        cipherText == HexDecode(encryptedObject.ciphertext[2])
        iv == IF ~isNullOrEmpty(GetV(encryptedObject, "iv"))
              THEN Buf(HexDecode(encryptedObject.iv[2])) ELSE Buf(emptyBuffer)
        mac == HexDecode(encryptedObject.mac[2])
        privateKeyBuffer == HexDecode(privateKey[2])
        agreement == generateSharedSecretUsingPrivateKey(
                         privateKeyBuffer, encryptedObject.ephemPublicKey,
                         GetA(useOptions, "curveType"))
        t1 == <<"composeOptions", "ensureEncryptedValueIsObject",
                "generateSharedSecretUsingPrivateKey">>
             \o (IF agreement.agreed THEN <<"keyAgreement">> ELSE <<>>)
    IN
    IF agreement.status = "throw"
    THEN Thrown(agreement.error, t1, NoCipher, <<>>)
    ELSE
    LET sharedSecret == agreement.sharedSecret
        ephemBuffer == HexDecode(encryptedObject.ephemPublicKey[2])
        scheme == OrElse(customScheme,
                         OrElse(GetA(useOptions, "scheme"),
                                getDefaultScheme(GetA(useOptions, "curveType"))))
    IN
    IF SchemeMismatch(GetA(encryptedObject, "scheme"), scheme)
    THEN Thrown("scheme does not match", t1, NoCipher, <<>>)
    ELSE IF ~TruthyA(customMessageKeyGenerator) /\ sharedSecret = Undefined
    THEN Thrown("TypeError", t1, NoCipher, <<>>)  \* sharedSecret.length of undefined
    ELSE
    LET keys == MessageKeys(customMessageKeyGenerator, GetA(useOptions, "hashCypherType"),
                            sharedSecret, useOptions.s1[2], ephemBuffer)
        compareMac == MessageMac(customMacGenerator, GetA(useOptions, "macCipherType"),
                                 keys.macKey, useOptions.s2[2], cipherText)
        t2 == t1 \o <<KeysStep(customMessageKeyGenerator), MacStep(customMacGenerator),
                      "equalConstTime">>
    IN
    IF MacMismatch(mac, compareMac)
    THEN WithKeys(Thrown("mac does not match", t2, NoCipher, <<mac, compareMac>>),
                  sharedSecret, useOptions.s1[2], ephemBuffer, keys)
    ELSE
    LET cypherName == GetA(useOptions, "symmetricCypherType")
        decrypted == symmetricDecrypt(cypherName, iv, keys.cipherKey, cipherText)
        cipher == [fn |-> "createDecipheriv", cypherName |-> cypherName, iv |-> iv]
        t3 == t2 \o <<"symmetricDecrypt">>
    IN WithKeys(
           IF decrypted.status = "throw"
           THEN Thrown(decrypted.error, t3, cipher, <<mac, compareMac>>)
           ELSE Returned(Str(Utf8Decode(decrypted.bytes)), t3, cipher, <<mac, compareMac>>),
           sharedSecret, useOptions.s1[2], ephemBuffer, keys)

----------------------------------------------------------------------------
(* asymmetric.ts: signing *)

\* helpers.ts: utf8StringToHexString, createSha256Hash (the digest as hex text),
\* byteArrayToHexString
utf8StringToHexString(chars) == BufferToHex(Utf8Encode(chars))
createSha256Hash(chars) == BufferToHex(generateMessageHash(Sha256, Utf8Encode(chars)))
byteArrayToHexString(bytes) == BufferToHex(bytes)

\* the length of a compact signature: r and s, each as wide as the digest
SignatureLength == 2 * HashLength(Sha256)

\* the deterministic signature of a digest under the private key of an owner
SignatureBytes(digest, owner) ==
    [i \in 1..SignatureLength |-> <<"sig", digest, owner, i>>]

Failed(err) == [status |-> "throw", error |-> err, value |-> Undefined]
Gave(v) == [status |-> "ok", error |-> "none", value |-> v]
Bool(b) == <<"bool", b>>

\* secp256k1: ecdsaSign(message, privateKey)
ecdsaSign(msg32, seckey) ==
    IF Len(msg32) # HashLength(Sha256)
    THEN Failed("Expected message to be an Uint8Array with length 32")
    ELSE IF Len(seckey) # KeyBytes
    THEN Failed("Expected private key to be an Uint8Array with length 32")
    ELSE Gave(SignatureBytes(msg32, OwnerOfPrivate(seckey)))

\* secp256k1: ecdsaVerify(signature, message, publicKey): the arguments are
\* checked first, and a wrong length is thrown
ecdsaVerify(sig, msg32, pubkey) ==
    IF Len(sig) # SignatureLength
    THEN Failed("Expected signature to be an Uint8Array with length 64")
    ELSE IF Len(msg32) # HashLength(Sha256)
    THEN Failed("Expected message to be an Uint8Array with length 32")
    ELSE IF Len(pubkey) # KeyBytes
    THEN Failed("Expected public key to be an Uint8Array with length [33, 65]")
    ELSE Gave(Bool(sig = SignatureBytes(msg32, OwnerOfPublic(pubkey))))

\* sign(value, privateKey)
sign(value, privateKey) ==
    LET valueBuffer == HexDecode(createSha256Hash(utf8StringToHexString(value[2])))
        keyBuffer == HexDecode(privateKey[2])
        signResults == ecdsaSign(valueBuffer, keyBuffer)
    IN IF signResults.status = "throw" THEN signResults
       ELSE Gave(Str(byteArrayToHexString(signResults.value)))

\* verifySignedWithPublicKey(value, publicKey, signature)
verifySignedWithPublicKey(value, publicKey, signature) ==
    LET valueBuffer == HexDecode(createSha256Hash(utf8StringToHexString(value[2])))
        keyBuffer == HexDecode(publicKey[2])
        sigBuffer == HexDecode(signature[2])
    IN ecdsaVerify(sigBuffer, valueBuffer, keyBuffer)

----------------------------------------------------------------------------
(* asymmetric.ts: the check of a stringified encrypted value *)

\* the words of /^.+publicKey.+ephemPublicKey.+ciphertext.+mac.+$/is
PublicKeyWord == <<112, 117, 98, 108, 105, 99, 75, 101, 121>>
EphemPublicKeyWord == <<101, 112, 104, 101, 109, 80, 117, 98, 108, 105, 99, 75, 101, 121>>
CiphertextWord == <<99, 105, 112, 104, 101, 114, 116, 101, 120, 116>>
MacWord == <<109, 97, 99>>

RegexWords == <<PublicKeyWord, EphemPublicKeyWord, CiphertextWord, MacWord>>

\* the canonical form of a char code under the i flag
FoldCase(cp) == IF cp \in 97..122 THEN cp - 32 ELSE cp

\* two chars are the same only when they are the same char
SameCharExactly(c, cp) == c = Chr(cp)

\* a char of the text matches a char of the pattern, whatever its case
SameChar(c, cp) == IsLitChr(c) /\ FoldCase(c[2]) = FoldCase(cp)

\* the word stands in the text at position p
WordAt(chars, word, p) ==
    /\ p + Len(word) - 1 <= Len(chars)
    /\ \A k \in 1..Len(word) : SameChar(chars[p + k - 1], word[k])

\* the positions from which the words from the w-th on, each after at least one
\* char, and at least one char after the last, can be matched
RECURSIVE MatchFrom(_, _, _)
MatchFrom(chars, w, from) ==
    IF w > Len(RegexWords)
    THEN from <= Len(chars)
    ELSE \E p \in (from + 1)..Len(chars) :
            /\ WordAt(chars, RegexWords[w], p)
            /\ MatchFrom(chars, w + 1, p + Len(RegexWords[w]))

\* isAsymEncryptedDataString(value)
isAsymEncryptedDataString(value) ==
    IF ~IsStr(value) THEN FALSE
    ELSE MatchFrom(value[2], 1, 1)

\* toAsymEncryptedDataString(value)
toAsymEncryptedDataString(value) ==
    IF isAsymEncryptedDataString(value) THEN Gave(value)
    ELSE Failed("Not valid asymmetric encrypted data string")

----------------------------------------------------------------------------
(* the onion engine: encryptWithPublicKeys and decryptWithPrivateKeys *)

\* the outcome of a call of the onion engine: the layer it stopped at and the
\* single-recipient outcomes of its layers so far
OnionThrown(err, layers) ==
    [status |-> "throw", error |-> err, value |-> Undefined, layers |-> layers]
OnionReturned(v, layers) ==
    [status |-> "ok", error |-> "none", value |-> v, layers |-> layers]

\* every public key encrypts the value the caller gave
SameValueForEveryLayer(valueToBeEncrypted, lastEncrypted) == valueToBeEncrypted

\* encryptWithPublicKeys: the serialized result of a layer is the plaintext of the
\* next
NextValueToBeEncrypted(valueToBeEncrypted, lastEncrypted) == JsonStringify(lastEncrypted)

\* encryptWithPublicKeys: the layers after the ones already made
RECURSIVE WrapLayers(_, _, _, _, _)

\* encryptWithPublicKeys: the rest of a pass of its loop, once encryptWithPublicKey
\* gave out for the layer: the result is kept and its text is the next plaintext
KeepLayer(out, valueToBeEncrypted, publicKeys, options, ephems, layers) ==
    IF out.status = "throw"
    THEN OnionThrown(out.error, Append(layers, out))
    ELSE WrapLayers(NextValueToBeEncrypted(valueToBeEncrypted, out.value),
                    publicKeys, options, ephems, Append(layers, out))

WrapLayers(valueToBeEncrypted, publicKeys, options, ephems, layers) ==
    LET index == Len(layers) + 1 IN
    IF index > Len(publicKeys)
    THEN OnionReturned(Obj([results |-> [i \in 1..Len(layers) |-> layers[i].value]]),
                       layers)
    ELSE KeepLayer(encryptWithPublicKey(publicKeys[index], valueToBeEncrypted, options,
                                        Obj(EmptyFields), ephems[index]),
                   valueToBeEncrypted, publicKeys, options, ephems, layers)

\* encryptWithPublicKeys(unencrypted, publicKeys, options); ephems are the
\* ephemeral key pairs its layers generate
encryptWithPublicKeys(unencrypted, publicKeys, options, ephems) ==
    WrapLayers(unencrypted, publicKeys, options, ephems, <<>>)

\* the private key of every layer, taken in the order given
LayerKeyInOrder(privateKeys, step) == privateKeys[step]

\* decryptWithPrivateKeys: the private key of the step-th unwrapping, the last of
\* the array first
LayerKey(privateKeys, step) == privateKeys[Len(privateKeys) + 1 - step]

\* decryptWithPrivateKeys: the unwrappings after the ones already made
RECURSIVE UnwrapLayers(_, _, _, _)

\* decryptWithPrivateKeys: the rest of a pass of its loop, once decryptWithPrivateKey
\* gave out for the layer: what it returned is the next value to unwrap
OpenLayer(out, privateKeys, options, layers) ==
    IF out.status = "throw"
    THEN OnionThrown(out.error, Append(layers, out))
    ELSE IF Len(layers) + 1 = Len(privateKeys)
    THEN OnionReturned(out.value, Append(layers, out))
    ELSE UnwrapLayers(out.value, privateKeys, options, Append(layers, out))

UnwrapLayers(encrypted, privateKeys, options, layers) ==
    LET step == Len(layers) + 1 IN
    IF ~(IsObj(encrypted) \/ (IsStr(encrypted) /\ IsJsonText(encrypted[2])))
    THEN OnionThrown("invalid envelope", layers)
    ELSE OpenLayer(decryptWithPrivateKey(encrypted, LayerKey(privateKeys, step), options,
                                         Obj(EmptyFields)),
                   privateKeys, options, layers)

\* decryptWithPrivateKeys(encrypted, privateKeys, options)
decryptWithPrivateKeys(encrypted, privateKeys, options) ==
    UnwrapLayers(encrypted, privateKeys, options, <<>>)

----------------------------------------------------------------------------
(* composeOptions on its own *)

OmitA == "omitted"
Omit == <<"omitted">>

NameFields ==
    {"hashCypherType", "macCipherType", "curveType", "symmetricCypherType",
     "keyFormat", "scheme", "customMessageKeyGenerator", "customMacGenerator"}

\* the object with the fields of r that are not marked omitted
Present(r) ==
    [f \in {g \in DOMAIN r :
              IF g \in NameFields THEN r[g] # OmitA ELSE r[g][1] # "omitted"}
       |-> r[f]]

IvTexts ==
    {Text(<<>>),                \* ''
     Text(<<48, 97, 48, 98>>),  \* '0a0b'
     Text(<<48, 65>>),          \* '0A'
     Text(<<49, 50, 122>>)}     \* '12z'

ComposeRawOptions ==
    {Undefined} \cup
    {Obj(Present(r)) : r \in
        [symmetricCypherType : {OmitA, Undef, Aes128Ecb, Aes256Ctr},
         iv : {Omit, Undefined, Null} \cup IvTexts,
         s1 : {Omit, Text(<<>>), Text(<<97>>)},
         s2 : {Omit, Null, Text(<<233, 98>>)},
         curveType : {OmitA, Ed25519}]}

NoCall == <<"none">>
Ret(v) == <<"ret", v>>

\* what a call was given, and what became of it: composed tells whether the call
\* got as far as composeOptions
Passed(options, encrypted, composed) ==
    Ret([options |-> options,
         optionsAfter |-> IF composed THEN OptionsAfterCompose(options) ELSE options,
         encrypted |-> encrypted,
         encryptedAfter |-> encrypted])

\* equalConstTime is not running
EqualIdle ==
    [pc |-> "idle", b1 |-> <<>>, b2 |-> <<>>, i |-> 0, result |-> 0, steps |-> <<>>,
     ret |-> "none"]

Init ==
    /\ DefaultEciesOptions = InitialDefaultEciesOptions
    /\ passedIn = NoCall
    /\ composeIn = NoCall
    /\ composeOut = NoCall
    /\ encArgs = NoCall
    /\ encOut = NoCall
    /\ envelope = NoCall
    /\ tampered = "none"
    /\ decArgs = NoCall
    /\ decOut = NoCall
    /\ equalRun = EqualIdle
    /\ wrapArgs = NoCall
    /\ wrapOut = NoCall
    /\ unwrapArgs = NoCall
    /\ unwrapOut = NoCall
    /\ signArgs = NoCall
    /\ signOut = NoCall
    /\ carried = NoCall
    /\ altered = "none"
    /\ verifyArgs = NoCall
    /\ verifyOut = NoCall
    /\ checkIn = NoCall
    /\ checkOut = NoCall
    /\ chain = NoCall
    /\ chainCall = NoCall
    /\ actionHelper = NoCall
    /\ helperCall = NoCall
    /\ ethAccount = NoCall
    /\ ethCall = NoCall
    /\ oreIn = NoCall
    /\ oreOut = NoCall
    /\ dotAccount = NoCall
    /\ dotCall = NoCall

\* a call of composeOptions
ComposeOptionsCall ==
    /\ \E o \in ComposeRawOptions :
          /\ composeIn' = Ret(o)
          /\ composeOut' = Ret(composeOptions(o))
          /\ DefaultEciesOptions' = DefaultsAfterCompose(o)
          /\ passedIn' = Passed(o, Undefined, TRUE)
    /\ UNCHANGED <<chainVars, actionVars, ethVars, oreVars, dotVars,
                   helperVars, eciesVars>>


SpecCompose == Init /\ [][ComposeOptionsCall]_vars

----------------------------------------------------------------------------
(* the engine at work: a sender encrypts, the envelope travels, a receiver
   decrypts *)

\* the number of recipients' key pairs
NumKeys == 2
\* the number of ephemeral key pairs the platform may draw
NumEphemeral == 1

PublicKeyOf(n) == Str(BufferToHex(PublicKeyBytes(Recipient(n))))
PrivateKeyOf(n) == Str(BufferToHex(PrivateKeyBytes(Recipient(n))))

CtrIvText == Text([i \in 1..32 |-> IF i % 2 = 1 THEN 48 ELSE 49])  \* '0101...01'

PlainTexts ==
    {Text(<<>>),
     Text(<<104>>),                                          \* 'h'
     Text([i \in 1..(BlockLength + 1) |-> IF i = 2 THEN 233 ELSE 96 + i])}

OptionsOf(r) == Obj(Present(r))

EciesOptionsSet ==
    {Undefined,
     OptionsOf([iv |-> Null]),
     OptionsOf([iv |-> Text(<<>>)]),
     OptionsOf([iv |-> Text(<<48, 97, 48, 98>>)]),
     OptionsOf([symmetricCypherType |-> Aes128Ecb, iv |-> Undefined]),
     OptionsOf([symmetricCypherType |-> Aes128Ecb, iv |-> Null]),
     OptionsOf([symmetricCypherType |-> Aes128Ecb, iv |-> Text(<<48, 97, 48, 98>>)]),
     OptionsOf([symmetricCypherType |-> Undef, iv |-> Text(<<48, 97, 48, 98>>)]),
     OptionsOf([symmetricCypherType |-> Aes256Ctr]),
     OptionsOf([symmetricCypherType |-> Aes256Ctr, hashCypherType |-> Sha512]),
     OptionsOf([symmetricCypherType |-> Aes256Ctr, hashCypherType |-> Sha512,
                iv |-> Null]),
     OptionsOf([symmetricCypherType |-> Aes256Ctr, hashCypherType |-> Sha512,
                iv |-> CtrIvText]),
     OptionsOf([curveType |-> Ed25519]),
     OptionsOf([curveType |-> Ed25519, scheme |-> "my.scheme",
                s1 |-> Text(<<97>>), s2 |-> Text(<<98>>)]),
     OptionsOf([curveType |-> "prime256v1"]),
     OptionsOf([scheme |-> "my.scheme"]),
     OptionsOf([s1 |-> Text(<<97>>), s2 |-> Text(<<233>>)])}

CustomSchemes ==
    {Undefined,
     Obj(EmptyFields),
     Obj([scheme |-> "custom.scheme"]),
     Obj([customMessageKeyGenerator |-> "keyGenerator"]),
     Obj([customMacGenerator |-> "macGenerator"]),
     Obj([customMessageKeyGenerator |-> "keyGenerator",
          customMacGenerator |-> "macGenerator"])}

\* what a receiver may pass instead of the sender's options and scheme
OtherOptions ==
    {OptionsOf([curveType |-> "prime256v1"]),
     OptionsOf([curveType |-> Ed25519]),
     OptionsOf([curveType |-> Secp256k1]),
     OptionsOf([iv |-> CtrIvText])}
OtherCustomSchemes == {Undefined, Obj([scheme |-> "other.scheme"])}

\* the calls of encryptWithPublicKey: every plaintext under every options value,
\* and one plaintext under every options value, custom scheme and key
EncryptInputs ==
    [key : {1}, plainText : PlainTexts, options : EciesOptionsSet,
     customAsymScheme : {Obj(EmptyFields)}]
    \cup
    [key : 1..NumKeys, plainText : {Text(<<104>>)}, options : EciesOptionsSet,
     customAsymScheme : CustomSchemes]

\* a call of encryptWithPublicKey; its result leaves for the receiver
EncryptCall ==
    /\ encArgs = NoCall
    /\ \E a \in EncryptInputs, e \in 1..NumEphemeral :
          /\ encArgs' = Ret(a)
          /\ encOut' = encryptWithPublicKey(PublicKeyOf(a.key), a.plainText, a.options,
                                            a.customAsymScheme, e)
          /\ envelope' = IF encOut'.status = "ok" THEN encOut'.value ELSE NoCall
          /\ DefaultEciesOptions' = IF encOut'.trace = <<>> THEN DefaultEciesOptions
                                    ELSE DefaultsAfterCompose(a.options)
          /\ passedIn' = Passed(a.options, Undefined, encOut'.trace # <<>>)
    /\ UNCHANGED <<chainVars, actionVars, ethVars, oreVars, dotVars,
                   helperVars, composeVars, tampered, decArgs, decOut>>

InFlight == IsObj(envelope) /\ decArgs = NoCall

WithField(env, f, v) == Obj(Assign(env[2], f, v))

\* the bits the model changes: the lowest bit of the first byte, the highest of
\* the last
Flips(bytes) ==
    IF bytes = <<>> THEN {}
    ELSE {[bytes EXCEPT ![1] = FlipBit(bytes[1], 0)],
          [bytes EXCEPT ![Len(bytes)] = FlipBit(bytes[Len(bytes)], 7)]}

\* one bit of the ciphertext changes on the way
TamperCiphertext ==
    /\ InFlight
    /\ tampered = "none"
    /\ \E b \in Flips(HexDecode(envelope[2].ciphertext[2])) :
          envelope' = WithField(envelope, "ciphertext", Str(BufferToHex(b)))
    /\ tampered' = "ciphertext"
    /\ UNCHANGED <<chainVars, actionVars, ethVars, oreVars, dotVars,
                   helperVars, DefaultEciesOptions, passedIn, composeVars, encArgs, encOut, decArgs, decOut>>

\* one bit of the mac changes on the way
TamperMac ==
    /\ InFlight
    /\ tampered = "none"
    /\ \E b \in Flips(HexDecode(envelope[2].mac[2])) :
          envelope' = WithField(envelope, "mac", Str(BufferToHex(b)))
    /\ tampered' = "mac"
    /\ UNCHANGED <<chainVars, actionVars, ethVars, oreVars, dotVars,
                   helperVars, DefaultEciesOptions, passedIn, composeVars, encArgs, encOut, decArgs, decOut>>

\* the scheme changes or is dropped on the way
TamperScheme ==
    /\ InFlight
    /\ tampered = "none"
    /\ \/ envelope' = WithField(envelope, "scheme", "evil.scheme")
       \/ envelope' = Obj(Rest(envelope[2], {"scheme"}))
       \/ envelope' = WithField(envelope, "scheme", NullS)
       \/ envelope' = WithField(envelope, "scheme", "")
    /\ tampered' = "scheme"
    /\ UNCHANGED <<chainVars, actionVars, ethVars, oreVars, dotVars,
                   helperVars, DefaultEciesOptions, passedIn, composeVars, encArgs, encOut, decArgs, decOut>>

\* a call of decryptWithPrivateKey on the envelope that arrived
DecryptCall ==
    /\ InFlight
    /\ \E n \in 1..NumKeys,
          oc \in {<<encArgs[2].options, encArgs[2].customAsymScheme>>}
                 \cup {<<o, encArgs[2].customAsymScheme>> : o \in OtherOptions}
                 \cup {<<encArgs[2].options, c>> : c \in OtherCustomSchemes} :
          /\ decArgs' = Ret([key |-> n, options |-> oc[1], customAsymScheme |-> oc[2]])
          /\ decOut' = decryptWithPrivateKey(envelope, PrivateKeyOf(n), oc[1], oc[2])
          /\ DefaultEciesOptions' = IF IsObj(oc[2]) THEN DefaultsAfterCompose(oc[1])
                                    ELSE DefaultEciesOptions
          /\ passedIn' = Passed(oc[1], envelope, IsObj(oc[2]))
          /\ envelope' = passedIn'[2].encryptedAfter
    /\ UNCHANGED <<chainVars, actionVars, ethVars, oreVars, dotVars,
                   helperVars, composeVars, encArgs, encOut, tampered>>

EciesNext ==
    \/ EncryptCall
    \/ TamperCiphertext
    \/ TamperMac
    \/ TamperScheme
    \/ DecryptCall

SpecEcies == Init /\ [][EciesNext]_vars

----------------------------------------------------------------------------
(* equalConstTime, one step of its code at a time *)

\* the longest buffer compared
MaxBufLen == 2

EqualBytes == {Byte(0), Byte(1), Byte(128)}

RECURSIVE BuffersOfLength(_)
BuffersOfLength(n) ==
    IF n = 0 THEN {<<>>}
    ELSE {Append(b, x) : b \in BuffersOfLength(n - 1), x \in EqualBytes}

EqualBuffers == UNION {BuffersOfLength(n) : n \in 0..MaxBufLen}

\* a loop that stops at the first byte that differs
LoopUntilMismatch(i, b1, result) == i < Len(b1) /\ result = 0

\* for (...; i < b1.length; ...)
LoopContinues(i, b1, result) == i < Len(b1)

\* equalConstTime(b1, b2) is called
EqualCall ==
    /\ equalRun.pc = "idle"
    /\ \E b1 \in EqualBuffers, b2 \in EqualBuffers :
          equalRun' = [EqualIdle EXCEPT !.pc = "lengths", !.b1 = b1, !.b2 = b2]
    /\ UNCHANGED <<chainVars, actionVars, ethVars, oreVars, dotVars,
                   DefaultEciesOptions, passedIn, composeVars, eciesVars, onionVars, signVars, checkVars>>

\* if (b1.length !== b2.length) return false; let result = 0; i = 0
EqualCompareLengths ==
    /\ equalRun.pc = "lengths"
    /\ equalRun' =
          IF Len(equalRun.b1) # Len(equalRun.b2)
          THEN [equalRun EXCEPT !.pc = "done", !.ret = "false",
                                !.steps = Append(@, "compareLengths")]
          ELSE [equalRun EXCEPT !.pc = "loop", !.result = 0, !.i = 0,
                                !.steps = Append(@, "compareLengths")]
    /\ UNCHANGED <<chainVars, actionVars, ethVars, oreVars, dotVars,
                   DefaultEciesOptions, passedIn, composeVars, eciesVars, onionVars, signVars, checkVars>>

\* result |= b1[i] ^ b2[i]; i += 1
EqualLoopStep ==
    /\ equalRun.pc = "loop"
    /\ LoopContinues(equalRun.i, equalRun.b1, equalRun.result)
    /\ equalRun' =
          [equalRun EXCEPT
              !.result = BitOr(@, XorBytes(equalRun.b1[equalRun.i + 1],
                                           equalRun.b2[equalRun.i + 1])),
              !.i = @ + 1,
              !.steps = Append(@, "xorOr")]
    /\ UNCHANGED <<chainVars, actionVars, ethVars, oreVars, dotVars,
                   DefaultEciesOptions, passedIn, composeVars, eciesVars, onionVars, signVars, checkVars>>

\* return result === 0
EqualReturn ==
    /\ equalRun.pc = "loop"
    /\ ~LoopContinues(equalRun.i, equalRun.b1, equalRun.result)
    /\ equalRun' =
          [equalRun EXCEPT !.pc = "done",
                           !.ret = IF equalRun.result = 0 THEN "true" ELSE "false",
                           !.steps = Append(@, "return")]
    /\ UNCHANGED <<chainVars, actionVars, ethVars, oreVars, dotVars,
                   DefaultEciesOptions, passedIn, composeVars, eciesVars, onionVars, signVars, checkVars>>

EqualNext ==
    \/ EqualCall
    \/ EqualCompareLengths
    \/ EqualLoopStep
    \/ EqualReturn

SpecEqual == Init /\ [][EqualNext]_vars

----------------------------------------------------------------------------
(* the onion engine at work: a sender wraps for a list of recipients, a
   receiver unwraps *)

Permutations3(S) == {<<a, b, c>> : a \in S, b \in S, c \in S}

\* the lists of recipients: every list of one or two keys, and the list of three
\* that goes from the first key to the last and back
OnionKeyLists ==
    {<<a>> : a \in 1..NumKeys}
    \cup {<<a, b>> : a \in 1..NumKeys, b \in 1..NumKeys}
    \cup {l \in Permutations3(1..NumKeys) : l[1] = 1 /\ l[2] = NumKeys /\ l[3] = 1}

OnionOptionsSet ==
    {Undefined,
     OptionsOf([curveType |-> Ed25519]),
     OptionsOf([symmetricCypherType |-> Aes256Ctr, hashCypherType |-> Sha512,
                iv |-> CtrIvText])}

\* the calls of encryptWithPublicKeys: every plaintext and options value for one
\* key, one plaintext under every options value for two keys, and under the
\* default options for three
WrapInputs ==
    {a \in [unencrypted : PlainTexts, keys : OnionKeyLists, options : OnionOptionsSet] :
        /\ Len(a.keys) > 1 => a.unencrypted = Text(<<104>>)
        /\ Len(a.keys) > 2 => a.options = Undefined}

\* a call of encryptWithPublicKeys
WrapCall ==
    /\ wrapArgs = NoCall
    /\ \E a \in WrapInputs, e \in 1..NumEphemeral :
          /\ wrapArgs' = Ret(a)
          /\ wrapOut' = encryptWithPublicKeys(
                            a.unencrypted, [i \in 1..Len(a.keys) |-> PublicKeyOf(a.keys[i])],
                            a.options, [i \in 1..Len(a.keys) |-> e])
          /\ DefaultEciesOptions' = DefaultsAfterCompose(a.options)
          /\ passedIn' = Passed(a.options, Undefined, TRUE)
    /\ UNCHANGED <<chainVars, actionVars, ethVars, oreVars, dotVars,
                   composeVars, eciesVars, equalRun, signVars, checkVars,
                   unwrapArgs, unwrapOut>>

Reverse(l) == [i \in 1..Len(l) |-> l[Len(l) + 1 - i]]

\* a call of decryptWithPrivateKeys on one of the results of the sender, as an
\* object or as its text, with the private keys of the layers it has, in the
\* order of the public keys or in the reverse order
UnwrapCall ==
    /\ wrapArgs # NoCall
    /\ wrapOut.status = "ok"
    /\ unwrapArgs = NoCall
    /\ \E n \in 1..Len(wrapArgs[2].keys), order \in {"same", "reverse"},
          form \in {"object", "text"} :
          LET result == wrapOut.value[2].results[n]
              encrypted == IF form = "object" THEN result ELSE JsonStringify(result)
              keys == SubSeq(wrapArgs[2].keys, 1, n)
              used == IF order = "same" THEN keys ELSE Reverse(keys)
          IN /\ unwrapArgs' = Ret([layer |-> n, order |-> order, form |-> form,
                                   keys |-> used])
             /\ unwrapOut' = decryptWithPrivateKeys(
                                 encrypted, [i \in 1..n |-> PrivateKeyOf(used[i])],
                                 wrapArgs[2].options)
             /\ DefaultEciesOptions' = DefaultsAfterCompose(wrapArgs[2].options)
             /\ passedIn' = Passed(wrapArgs[2].options, encrypted, TRUE)
    /\ UNCHANGED <<chainVars, actionVars, ethVars, oreVars, dotVars,
                   composeVars, eciesVars, equalRun, signVars, checkVars,
                   wrapArgs, wrapOut>>

OnionNext ==
    \/ WrapCall
    \/ UnwrapCall

SpecOnion == Init /\ [][OnionNext]_vars

----------------------------------------------------------------------------
(* signing at work: a signer signs, message and signature travel, a verifier
   verifies *)

\* a call of sign; the message and its signature leave for the verifier
SignCall ==
    /\ signArgs = NoCall
    /\ \E value \in PlainTexts, n \in 1..NumKeys :
          LET out == sign(value, PrivateKeyOf(n)) IN
          /\ signArgs' = Ret([value |-> value, key |-> n])
          /\ signOut' = out
          /\ carried' = IF out.status = "ok"
                        THEN Ret([value |-> value, signature |-> out.value])
                        ELSE NoCall
    /\ UNCHANGED <<chainVars, actionVars, ethVars, oreVars, dotVars,
                   DefaultEciesOptions, passedIn, composeVars, eciesVars, equalRun, onionVars, checkVars,
                   altered, verifyArgs, verifyOut>>

OnItsWay == carried # NoCall /\ verifyArgs = NoCall

\* one byte of the signature changes on the way: its lowest bit flips, so that
\* one hex digit of the text becomes another
AlterSignatureByte ==
    /\ OnItsWay
    /\ altered = "none"
    /\ \E k \in {1, SignatureLength} :
          LET bytes == HexDecode(carried[2].signature[2]) IN
          carried' = Ret([carried[2] EXCEPT !.signature =
                             Str(BufferToHex([bytes EXCEPT ![k] = FlipBit(bytes[k], 0)]))])
    /\ altered' = "signature byte"
    /\ UNCHANGED <<chainVars, actionVars, ethVars, oreVars, dotVars,
                   DefaultEciesOptions, passedIn, composeVars, eciesVars, equalRun, onionVars, checkVars,
                   signArgs, signOut, verifyArgs, verifyOut>>

\* one character of the signature text becomes a 'z' on the way
AlterSignatureText ==
    /\ OnItsWay
    /\ altered = "none"
    /\ \E j \in {1, Len(carried[2].signature[2])} :
          carried' = Ret([carried[2] EXCEPT !.signature =
                             Str([carried[2].signature[2] EXCEPT ![j] = Chr(122)])])
    /\ altered' = "signature text"
    /\ UNCHANGED <<chainVars, actionVars, ethVars, oreVars, dotVars,
                   DefaultEciesOptions, passedIn, composeVars, eciesVars, equalRun, onionVars, checkVars,
                   signArgs, signOut, verifyArgs, verifyOut>>

\* one character of the message becomes the next one on the way
AlterMessage ==
    /\ OnItsWay
    /\ altered = "none"
    /\ \E j \in 1..Len(carried[2].value[2]) :
          LET c == carried[2].value[2][j] IN
          carried' = Ret([carried[2] EXCEPT !.value =
                             Str([carried[2].value[2] EXCEPT ![j] = Chr(c[2] + 1)])])
    /\ altered' = "message"
    /\ UNCHANGED <<chainVars, actionVars, ethVars, oreVars, dotVars,
                   DefaultEciesOptions, passedIn, composeVars, eciesVars, equalRun, onionVars, checkVars,
                   signArgs, signOut, verifyArgs, verifyOut>>

\* a call of verifySignedWithPublicKey on what arrived
VerifyCall ==
    /\ OnItsWay
    /\ \E n \in 1..NumKeys :
          /\ verifyArgs' = Ret([key |-> n])
          /\ verifyOut' = verifySignedWithPublicKey(carried[2].value, PublicKeyOf(n),
                                                    carried[2].signature)
    /\ UNCHANGED <<chainVars, actionVars, ethVars, oreVars, dotVars,
                   DefaultEciesOptions, passedIn, composeVars, eciesVars, equalRun, onionVars, checkVars,
                   signArgs, signOut, carried, altered>>

SignNext ==
    \/ SignCall
    \/ AlterSignatureByte
    \/ AlterSignatureText
    \/ AlterMessage
    \/ VerifyCall

SpecSign == Init /\ [][SignNext]_vars

----------------------------------------------------------------------------
(* the check of a stringified encrypted value, called on texts made of the four
   words and of what stands around them *)

UpperCase(word) == [k \in 1..Len(word) |-> FoldCase(word[k])]

\* a word as the text has it: as in the pattern, in capitals, or not at all
Written(word, how) ==
    IF how = "exact" THEN word ELSE IF how = "upper" THEN UpperCase(word) ELSE <<>>

\* what stands before, between and after the words: nothing or a line break
Gaps == {<<>>, <<10>>}

WordOrders == {<<1, 2, 3, 4>>, <<2, 1, 3, 4>>, <<1, 2, 4, 3>>}

TextShapes ==
    [gaps : [1..5 -> Gaps], words : [1..4 -> {"exact", "upper", "absent"}],
     order : WordOrders]

\* the text of a shape: gap, word, gap, word, gap, word, gap, word, gap
TextOf(shape) ==
    Text(Flatten([k \in 1..9 |->
        IF k % 2 = 1 THEN shape.gaps[(k + 1) \div 2]
        ELSE Written(RegexWords[shape.order[k \div 2]],
                     shape.words[shape.order[k \div 2]])]))

\* a call of isAsymEncryptedDataString and of toAsymEncryptedDataString on a text
CheckTextCall ==
    /\ checkIn = NoCall
    /\ \E shape \in TextShapes :
          /\ checkIn' = Ret([shape |-> shape, value |-> TextOf(shape)])
          /\ checkOut' = [is |-> isAsymEncryptedDataString(TextOf(shape)),
                          to |-> toAsymEncryptedDataString(TextOf(shape))]
    /\ UNCHANGED <<chainVars, actionVars, ethVars, oreVars, dotVars,
                   DefaultEciesOptions, passedIn, composeVars, eciesVars, equalRun, onionVars,
                   signVars>>

NoShape == [gaps |-> <<>>, words |-> <<>>, order |-> <<>>]

\* a call on a value that is no string
CheckOtherCall ==
    /\ checkIn = NoCall
    /\ \E value \in {Undefined, Null, Obj(EmptyFields), Buf(PublicKeyBytes(Recipient(1)))} :
          /\ checkIn' = Ret([shape |-> NoShape, value |-> value])
          /\ checkOut' = [is |-> isAsymEncryptedDataString(value),
                          to |-> toAsymEncryptedDataString(value)]
    /\ UNCHANGED <<chainVars, actionVars, ethVars, oreVars, dotVars,
                   DefaultEciesOptions, passedIn, composeVars, eciesVars, equalRun, onionVars,
                   signVars>>

CheckNext ==
    \/ CheckTextCall
    \/ CheckOtherCall

SpecCheck == Init /\ [][CheckNext]_vars

----------------------------------------------------------------------------
(* what the claims speak of *)

EncCalled == encArgs # NoCall
DecCalled == decArgs # NoCall

FieldsOf(options) == IF IsObj(options) THEN options[2] ELSE EmptyFields

\* the receiver passes the matching private key and the sender's options and
\* custom scheme
SameSides ==
    /\ decArgs[2].key = encArgs[2].key
    /\ decArgs[2].options = encArgs[2].options
    /\ decArgs[2].customAsymScheme = encArgs[2].customAsymScheme

\* the iv setting of the options is a hex string, undefined or null
IvSettingCovered(options) ==
    LET iv == GetV(FieldsOf(options), "iv") IN ~(IsStr(iv) /\ Len(iv[2]) = 0)

C2_TamperDetected ==
    (DecCalled /\ tampered \in {"ciphertext", "mac"} /\ SameSides)
        => /\ decOut.status = "throw"
           /\ decOut.error = "mac does not match"
           /\ decOut.value = Undefined

C2_Witness ==
    /\ DecCalled /\ tampered = "mac" /\ SameSides
    /\ decOut.macs # <<>>
    /\ decOut.macs[1][1] = FlipBit(decOut.macs[2][1], 0)
    /\ decOut.error = "mac does not match"

Steps(outcome) == {outcome.trace[i] : i \in DOMAIN outcome.trace}

\* C3: in every call of decryptWithPrivateKey that compared a stored mac with a
\* recomputed mac different from it, symmetricDecrypt was not called, no cipher
\* was created and the call ended in an error without a plaintext
C3_MacBeforeDecrypt ==
    (DecCalled /\ decOut.macs # <<>> /\ decOut.macs[1] # decOut.macs[2])
        => /\ decOut.status = "throw"
           /\ "equalConstTime" \in Steps(decOut)
           /\ "symmetricDecrypt" \notin Steps(decOut)
           /\ decOut.cipher = NoCipher
           /\ decOut.value = Undefined

C3_Witness ==
    /\ DecCalled /\ tampered = "ciphertext"
    /\ decOut.macs # <<>> /\ decOut.macs[1] # decOut.macs[2]
    /\ decOut.status = "throw"
    /\ "symmetricDecrypt" \notin Steps(decOut)

\* the scheme the envelope that arrived carries
EnvelopeScheme == GetA(envelope[2], "scheme")

\* the scheme a call resolves: the custom scheme argument's name, else
\* options.scheme, else the default name of the curve
ResolvedScheme(args) ==
    LET useOptions == composeOptions(args.options) IN
    OrElse(GetA(args.customAsymScheme[2], "scheme"),
           OrElse(GetA(useOptions, "scheme"), getDefaultScheme(GetA(useOptions, "curveType"))))

\* decryptWithPrivateKey was called with a custom scheme argument on an envelope
\* that carries a scheme other than the resolved one
SchemeDiffers ==
    /\ DecCalled
    /\ IsObj(decArgs[2].customAsymScheme)
    /\ TruthyA(EnvelopeScheme)
    /\ EnvelopeScheme # ResolvedScheme(decArgs[2])

\* the receiver's key agreement of the call, on its own
ReceiverAgreement ==
    generateSharedSecretUsingPrivateKey(
        HexDecode(PrivateKeyOf(decArgs[2].key)[2]), envelope[2].ephemPublicKey,
        GetA(composeOptions(decArgs[2].options), "curveType"))

DerivationSteps ==
    {"generateMessageHash", "customMessageKeyGenerator", "generateMessageMac",
     "customMacGenerator", "equalConstTime", "symmetricDecrypt"}

CurveOf(args) ==
    IF "curveType" \in DOMAIN FieldsOf(args.options)
    THEN FieldsOf(args.options).curveType
    ELSE DefaultEciesOptions.curveType

\* C6: the scheme in the envelope encryptWithPublicKey returns is the name in
\* the custom scheme argument when it has one, else options.scheme when set,
\* else 'asym.chainjs.secp256k1' or 'asym.chainjs.ed25519' after the curve
C6_SchemeResolution ==
    (EncCalled /\ encOut.status = "ok")
        => LET customScheme == GetA(encArgs[2].customAsymScheme[2], "scheme")
               optionsScheme == GetA(FieldsOf(encArgs[2].options), "scheme")
           IN GetA(encOut.value[2], "scheme") =
                 IF TruthyA(customScheme) THEN customScheme
                 ELSE IF TruthyA(optionsScheme) THEN optionsScheme
                 ELSE IF CurveOf(encArgs[2]) = "ed25519" THEN "asym.chainjs.ed25519"
                 ELSE "asym.chainjs.secp256k1"

C6_Witness ==
    /\ EncCalled /\ encOut.status = "ok"
    /\ CurveOf(encArgs[2]) = "ed25519"
    /\ ~TruthyA(GetA(FieldsOf(encArgs[2].options), "scheme"))
    /\ GetA(encOut.value[2], "scheme") = "asym.chainjs.ed25519"

\* C7: for a curveType other than secp256k1 and ed25519 both
\* encryptWithPublicKey and decryptWithPrivateKey fail with the unsupported
\* curve error of the key agreement
C7_NoSilentFallback ==
    /\ (EncCalled /\ IsObj(encArgs[2].customAsymScheme)
            /\ CurveOf(encArgs[2]) \notin {"secp256k1", "ed25519"})
          => (encOut.status = "throw" /\ encOut.error = "Not supported CurveType")
    /\ (DecCalled /\ IsObj(decArgs[2].customAsymScheme)
            /\ CurveOf(decArgs[2]) \notin {"secp256k1", "ed25519"})
          => (decOut.status = "throw" /\ decOut.error = "Not supported CurveType")

ComposeCalled == composeIn # NoCall

\* the caller's options do not set symmetricCypherType
CipherUnset(options) ==
    GetA(FieldsOf(options), "symmetricCypherType") = "undefined"

\* C8: whenever the caller's options do not set symmetricCypherType (omitted or
\* undefined), composeOptions returns the default symmetric cipher and the iv
\* derived from the cipher type, whatever iv the caller gave
C8_IvDerivedWhenCipherUnset ==
    (ComposeCalled /\ CipherUnset(composeIn[2]))
        => /\ composeOut[2].symmetricCypherType = "aes-128-ecb"
           /\ composeOut[2].iv = Buf(<<>>)

\* the iv setting and the cipher the caller gave to encryptWithPublicKey
IvGiven == GetV(FieldsOf(encArgs[2].options), "iv")
CipherGiven == GetA(FieldsOf(encArgs[2].options), "symmetricCypherType")

Absent(options, f) == f \notin DOMAIN FieldsOf(options)

\* every field of the default options has a value in the options returned
DefaultsPopulated(out) ==
    \A f \in DOMAIN InitialDefaultEciesOptions : f \in DOMAIN out /\ out[f] # "undefined"

Supplied(args, generator) ==
    IsObj(args.customAsymScheme) /\ TruthyA(GetA(args.customAsymScheme[2], generator))

\* s1 or s2 as the call's options give it, in bytes
ContextBytes(args, f) ==
    LET v == GetV(FieldsOf(args.options), f)
    IN IF IsStr(v) THEN Utf8Encode(v[2]) ELSE <<>>

\* the keys of a call are the two halves of hash(sharedSecret || s1 ||
\* ephemeralPublicKeyBytes)
HalvesOfHash(args, outcome) ==
    LET k == outcome.keys
        h == generateMessageHash(GetA(composeOptions(args.options), "hashCypherType"),
                                 k.sharedSecret[2] \o k.s1 \o k.ephemBuffer)
    IN /\ "generateMessageHash" \in Steps(outcome)
       /\ k.s1 = ContextBytes(args, "s1")
       /\ Len(k.cipherKey) = Len(k.macKey)
       /\ k.cipherKey \o k.macKey = h
       /\ k.cipherKey = [i \in 1..(Len(h) \div 2) |-> h[i]]

\* C11: with no custom key generator, encryptWithPublicKey and
\* decryptWithPrivateKey each take as cipher key the first half and as MAC key
\* the second half of hash(sharedSecret || s1 || ephemeralPublicKeyBytes), the
\* two keys have the same length, and the two calls get the same keys from the
\* same inputs
C11_DefaultDerivation ==
    /\ (EncCalled /\ encOut.keys.derived /\ ~Supplied(encArgs[2], "customMessageKeyGenerator"))
          => HalvesOfHash(encArgs[2], encOut)
    /\ (DecCalled /\ decOut.keys.derived /\ ~Supplied(decArgs[2], "customMessageKeyGenerator"))
          => HalvesOfHash(decArgs[2], decOut)
    /\ (DecCalled /\ decOut.keys.derived /\ encOut.keys.derived
            /\ ~Supplied(encArgs[2], "customMessageKeyGenerator")
            /\ ~Supplied(decArgs[2], "customMessageKeyGenerator")
            /\ GetA(composeOptions(decArgs[2].options), "hashCypherType")
                  = GetA(composeOptions(encArgs[2].options), "hashCypherType")
            /\ decOut.keys.sharedSecret = encOut.keys.sharedSecret
            /\ decOut.keys.s1 = encOut.keys.s1
            /\ decOut.keys.ephemBuffer = encOut.keys.ephemBuffer)
          => (decOut.keys.cipherKey = encOut.keys.cipherKey
              /\ decOut.keys.macKey = encOut.keys.macKey)

C11_Witness ==
    /\ DecCalled /\ decOut.keys.derived /\ encOut.keys.derived
    /\ ~Supplied(decArgs[2], "customMessageKeyGenerator")
    /\ decOut.keys.s1 # <<>>
    /\ decOut.keys.cipherKey # <<>>
    /\ decOut.keys.cipherKey # decOut.keys.macKey
    /\ decOut.keys = encOut.keys
    /\ decOut.status = "ok"

\* the call used the keys its custom key generator returns and did not run the
\* default derivation
KeysOverridden(outcome) ==
    LET k == outcome.keys
        custom == CustomKeys(k.sharedSecret, k.s1, k.ephemBuffer)
    IN /\ "generateMessageHash" \notin Steps(outcome)
       /\ "customMessageKeyGenerator" \in Steps(outcome)
       /\ k.cipherKey = custom.cipherKey
       /\ k.macKey = custom.macKey

\* the tag of the custom MAC generator for the call's MAC key, s2 and the
\* ciphertext
CustomTag(args, outcome, cipherText) ==
    CustomMac(outcome.keys.macKey, ContextBytes(args, "s2"), cipherText)

\* C12: in encryptWithPublicKey and decryptWithPrivateKey a supplied
\* customMessageKeyGenerator replaces the hash derivation, and the keys used are
\* the ones it returns; a supplied customMacGenerator replaces the HMAC, and
\* the tag written or compared is the one it returns; each default stays in
\* place when only the other generator is supplied
C12_StrategyOverride ==
    /\ (EncCalled /\ encOut.keys.derived)
          => /\ IF Supplied(encArgs[2], "customMessageKeyGenerator")
                THEN KeysOverridden(encOut)
                ELSE "generateMessageHash" \in Steps(encOut)
    /\ (EncCalled /\ encOut.status = "ok")
          => LET cipherText == HexDecode(encOut.value[2].ciphertext[2])
                 mac == HexDecode(encOut.value[2].mac[2])
             IN IF Supplied(encArgs[2], "customMacGenerator")
                THEN /\ "generateMessageMac" \notin Steps(encOut)
                     /\ "customMacGenerator" \in Steps(encOut)
                     /\ mac = CustomTag(encArgs[2], encOut, cipherText)
                ELSE "generateMessageMac" \in Steps(encOut)
    /\ (DecCalled /\ decOut.keys.derived)
          => LET cipherText == HexDecode(envelope[2].ciphertext[2])
             IN /\ IF Supplied(decArgs[2], "customMessageKeyGenerator")
                   THEN KeysOverridden(decOut)
                   ELSE "generateMessageHash" \in Steps(decOut)
                /\ IF Supplied(decArgs[2], "customMacGenerator")
                   THEN /\ "generateMessageMac" \notin Steps(decOut)
                        /\ "customMacGenerator" \in Steps(decOut)
                        /\ decOut.macs[2] = CustomTag(decArgs[2], decOut, cipherText)
                   ELSE "generateMessageMac" \in Steps(decOut)

C12_Witness ==
    /\ DecCalled /\ decOut.status = "ok"
    /\ Supplied(decArgs[2], "customMacGenerator")
    /\ ~Supplied(decArgs[2], "customMessageKeyGenerator")
    /\ "generateMessageHash" \in Steps(decOut)
    /\ "generateMessageMac" \notin Steps(decOut)
    /\ decOut.macs[1] = decOut.macs[2]
    /\ decOut.macs[2][1][1] = "cmac"

EqualDone == equalRun.pc = "done"

\* the two buffers have the same length and the same byte at every position
SameBytes(b1, b2) ==
    Len(b1) = Len(b2) /\ \A i \in 1..Len(b1) : b1[i] = b2[i]

\* C13: equalConstTime(b1, b2) returns true exactly when b1 and b2 have the
\* same length and the same byte at every position: false for two lengths,
\* true for two empty buffers
C13_EqualExactly ==
    EqualDone
        => /\ (equalRun.ret = "true") = SameBytes(equalRun.b1, equalRun.b2)
           /\ (equalRun.ret = "false") = ~SameBytes(equalRun.b1, equalRun.b2)
           /\ equalConstTime(equalRun.b1, equalRun.b2)
                 = SameBytes(equalRun.b1, equalRun.b2)

C13_Witness ==
    /\ EqualDone
    /\ Len(equalRun.b1) = MaxBufLen /\ Len(equalRun.b2) = MaxBufLen
    /\ equalRun.b1[MaxBufLen] = equalRun.b2[MaxBufLen]
    /\ equalRun.b1[1] # equalRun.b2[1]
    /\ equalRun.ret = "false"
    /\ ~equalConstTime(equalRun.b1, equalRun.b2)

\* C14: on two buffers of the same length n equalConstTime takes the same
\* steps whatever the bytes are: the comparison of the lengths, n iterations
\* of the loop, the return; a run never leaves the loop before its n-th
\* iteration
C14_SameStepsForSameLength ==
    /\ (EqualDone /\ Len(equalRun.b1) = Len(equalRun.b2))
          => /\ equalRun.i = Len(equalRun.b1)
             /\ equalRun.steps =
                   <<"compareLengths">>
                   \o [k \in 1..Len(equalRun.b1) |-> "xorOr"]
                   \o <<"return">>
    /\ (equalRun.pc = "loop")
          => equalRun.steps =
                <<"compareLengths">> \o [k \in 1..equalRun.i |-> "xorOr"]

C14_Witness ==
    /\ EqualDone
    /\ Len(equalRun.b1) = MaxBufLen /\ Len(equalRun.b2) = MaxBufLen
    /\ equalRun.b1[1] # equalRun.b2[1]
    /\ equalRun.i = MaxBufLen
    /\ Len(equalRun.steps) = MaxBufLen + 2

WrapCalled == wrapArgs # NoCall
UnwrapCalled == unwrapArgs # NoCall

\* the private keys were given in the order of the public keys
SameOrder == unwrapArgs[2].order = "same"

\* the number of layers of the value that was unwrapped
UnwrapDepth == unwrapArgs[2].layer

\* C15: decryptWithPrivateKeys on the fully wrapped result of encryptWithPublicKeys
\* (or on the result of any earlier layer), as an object or as its text, with the
\* private keys in the positional order of the public keys, returns the original
\* plaintext; its k-th unwrapping agrees on the secret of the k-th layer from the
\* end, so the private keys are applied from last to first
C15_OnionRoundTrip ==
    (UnwrapCalled /\ SameOrder)
        => /\ unwrapOut.status = "ok"
           /\ unwrapOut.value = wrapArgs[2].unencrypted
           /\ Len(unwrapOut.layers) = UnwrapDepth
           /\ \A k \in 1..UnwrapDepth :
                 /\ unwrapOut.layers[k].keys.derived
                 /\ unwrapOut.layers[k].keys.sharedSecret
                        = wrapOut.layers[UnwrapDepth + 1 - k].keys.sharedSecret

C15_Witness ==
    /\ UnwrapCalled /\ SameOrder
    /\ UnwrapDepth = Len(wrapArgs[2].keys)
    /\ UnwrapDepth > 1
    /\ wrapArgs[2].keys[1] # wrapArgs[2].keys[2]
    /\ unwrapOut.status = "ok"
    /\ unwrapOut.value = wrapArgs[2].unencrypted

\* the results of a call of encryptWithPublicKeys that returned
WrapResults == wrapOut.value[2].results

\* the plaintext the private key of layer i gets out of result i
Unwrapped(i) ==
    decryptWithPrivateKey(WrapResults[i], PrivateKeyOf(wrapArgs[2].keys[i]),
                          wrapArgs[2].options, Obj(EmptyFields))

\* C16: encryptWithPublicKeys over n public keys returns n envelopes; the first
\* is addressed to the first key and decrypts, under its private key, to the
\* plaintext of the caller; every later one is addressed to its key and decrypts
\* to the serialized envelope before it
C16_OnionLayering ==
    (WrapCalled /\ wrapOut.status = "ok")
        => /\ Len(WrapResults) = Len(wrapArgs[2].keys)
           /\ \A i \in 1..Len(WrapResults) :
                 /\ IsObj(WrapResults[i])
                 /\ WrapResults[i][2].publicKey = PublicKeyOf(wrapArgs[2].keys[i])
                 /\ Unwrapped(i).status = "ok"
                 /\ Unwrapped(i).value
                        = IF i = 1 THEN wrapArgs[2].unencrypted
                          ELSE JsonStringify(WrapResults[i - 1])

C16_Witness ==
    /\ WrapCalled /\ wrapOut.status = "ok"
    /\ Len(WrapResults) > 1
    /\ wrapArgs[2].keys[1] # wrapArgs[2].keys[2]
    /\ Unwrapped(2).value = JsonStringify(WrapResults[1])
    /\ Unwrapped(1).value = wrapArgs[2].unencrypted
    /\ WrapResults[2] # WrapResults[1]

VerifyCalled == verifyArgs # NoCall
MatchingKey == verifyArgs[2].key = signArgs[2].key

\* C17, to the letter: the signature of a message verifies under the matching
\* public key, and whenever the signature or the message arrives with one byte
\* changed, verifySignedWithPublicKey returns false and does not throw
C17_VerifyNeverThrows ==
    VerifyCalled
        => /\ (altered = "none" /\ MatchingKey)
                 => (verifyOut.status = "ok" /\ verifyOut.value = Bool(TRUE))
           /\ (altered # "none")
                 => (verifyOut.status = "ok" /\ verifyOut.value = Bool(FALSE))

\* what the code gives: true for the untouched signature under the matching key,
\* false under another key, for a signature byte changed to another byte and
\* for a changed message; a signature text with a character that is no hex
\* digit decodes to fewer bytes, and ecdsaVerify throws for their number
VerifyOutcomes ==
    VerifyCalled
        => /\ (altered = "none" /\ MatchingKey)
                 => (verifyOut.status = "ok" /\ verifyOut.value = Bool(TRUE))
           /\ (altered = "none" /\ ~MatchingKey)
                 => (verifyOut.status = "ok" /\ verifyOut.value = Bool(FALSE))
           /\ (altered \in {"signature byte", "message"})
                 => (verifyOut.status = "ok" /\ verifyOut.value = Bool(FALSE))
           /\ (altered = "signature text")
                 => /\ verifyOut.status = "throw"
                    /\ verifyOut.error
                           = "Expected signature to be an Uint8Array with length 64"

CheckCalled == checkIn # NoCall
CheckedText == checkIn[2].shape # NoShape

\* the four words are all in the text, in the order of the pattern
AllInOrder(hows) ==
    /\ checkIn[2].shape.order = <<1, 2, 3, 4>>
    /\ \A w \in 1..4 : checkIn[2].shape.words[w] \in hows

\* something stands before the first word, between the words and after the last
GapsFilled == \A g \in 1..5 : checkIn[2].shape.gaps[g] # <<>>

\* toAsymEncryptedDataString returns the value when the check is true and throws
\* when it is false
ToFollowsIs ==
    IF checkOut.is THEN checkOut.to = Gave(checkIn[2].value)
    ELSE checkOut.to.status = "throw"

\* C18, to the letter: isAsymEncryptedDataString is true exactly for a string
\* that contains 'publicKey', 'ephemPublicKey', 'ciphertext' and 'mac' in this
\* order, and toAsymEncryptedDataString returns such a value and throws for the rest
C18_TrueIffContainsInOrder ==
    CheckCalled
        => /\ checkOut.is = (CheckedText /\ AllInOrder({"exact"}))
           /\ ToFollowsIs

\* C18, as the code has it: isAsymEncryptedDataString is true exactly for a
\* string in which the four words stand in this order, in any case of letters,
\* with at least one character (a line break will do) before the first, between
\* any two and after the last; toAsymEncryptedDataString returns such a value
\* and throws for the rest
C18_TrueIffMatchesIgnoringCase ==
    CheckCalled
        => /\ checkOut.is = (CheckedText /\ AllInOrder({"exact", "upper"}) /\ GapsFilled)
           /\ ToFollowsIs

C18_Witness ==
    /\ CheckCalled /\ CheckedText
    /\ AllInOrder({"exact", "upper"}) /\ ~AllInOrder({"exact"})
    /\ GapsFilled
    /\ checkOut.is
    /\ checkOut.to = Gave(checkIn[2].value)

NoSchemeGiven(args) == args[2].customAsymScheme = Undefined

\* the call ended at once: it threw before composeOptions and every later step,
\* derived no keys, created no cipher and returned nothing
FailedAtOnce(outcome) ==
    /\ outcome.status = "throw"
    /\ outcome.error = "TypeError"
    /\ outcome.trace = <<>>
    /\ outcome.value = Undefined
    /\ ~outcome.keys.derived
    /\ outcome.cipher = NoCipher
    /\ outcome.macs = <<>>

\* C20: a call of encryptWithPublicKey or decryptWithPrivateKey without the
\* customAsymScheme argument throws at once, before the options are composed
\* and before any key agreement, derivation, encryption or decryption, and
\* gives no envelope and no plaintext
C20_MissingSchemeFailsAtOnce ==
    /\ (EncCalled /\ NoSchemeGiven(encArgs))
          => (FailedAtOnce(encOut) /\ envelope = NoCall)
    /\ (DecCalled /\ NoSchemeGiven(decArgs))
          => FailedAtOnce(decOut)

C20_Witness ==
    /\ DecCalled /\ NoSchemeGiven(decArgs) /\ ~NoSchemeGiven(encArgs)
    /\ tampered = "none"
    /\ decArgs[2].key = encArgs[2].key
    /\ FailedAtOnce(decOut)

\* the curve a call works on
SenderCurve == CurveOf(encArgs[2])

\* the raw ephemeral public key of the e-th ephemeral key pair
EphemeralKey(e) == PublicKeyBytes(Ephemeral(e))

\* the ephemeral key pair the sender drew, told by the secret it agreed on
DrawnBySender ==
    {e \in 1..NumEphemeral :
        encOut.keys.sharedSecret
            = Buf(DiffieHellman(SenderCurve, Ephemeral(e), Recipient(encArgs[2].key)))}

\* what a receiver on the sender's curve hands to the key agreement
FedToAgreement ==
    generateSharedSecretUsingPrivateKey(
        HexDecode(PrivateKeyOf(encArgs[2].key)[2]), envelope[2].ephemPublicKey,
        SenderCurve).agreementKey

\* C21: in an envelope of encryptWithPublicKey, ephemPublicKey is the hex of the
\* raw ephemeral key for secp256k1 and the hex of the base64 text of the
\* ephemeral key for ed25519; what the receiver hands to the key agreement,
\* after hex-decoding and, for ed25519, base64-decoding, is the ephemeral public
\* key the sender generated
C21_EphemeralKeyEncoding ==
    (EncCalled /\ encOut.status = "ok" /\ tampered = "none")
        => /\ DrawnBySender # {}
           /\ \A e \in DrawnBySender :
                 /\ SenderCurve = Secp256k1
                       => envelope[2].ephemPublicKey = Str(BufferToHex(EphemeralKey(e)))
                 /\ SenderCurve = Ed25519
                       => /\ envelope[2].ephemPublicKey
                                = Str(BufferToHex(Utf8Encode(Base64Encode(EphemeralKey(e)))))
                          /\ envelope[2].ephemPublicKey # Str(BufferToHex(EphemeralKey(e)))
                 /\ FedToAgreement = EphemeralKey(e)

C21_Witness ==
    /\ DecCalled /\ tampered = "none" /\ SameSides
    /\ SenderCurve = Ed25519
    /\ DrawnBySender # {}
    /\ FedToAgreement = EphemeralKey(CHOOSE e \in DrawnBySender : TRUE)
    /\ decOut.status = "ok"

\* both calls got as far as their cipher key and MAC key
BothDerived == DecCalled /\ encOut.keys.derived /\ decOut.keys.derived

----------------------------------------------------------------------------
(* the iv of a decryption *)

\* what a receiver may put as the iv of its options
DecryptIvValues == {Undefined, Null, Text(<<>>), Text(<<48, 97, 48, 98>>), CtrIvText}

\* the options of a call with another iv, everything else as it was
WithIv(options, v) ==
    Obj(Assign(IF IsObj(options) THEN options[2] ELSE EmptyFields, "iv", v))

\* what the caller of a decryption sees
Seen(outcome) == <<outcome.status, outcome.error, outcome.value>>

\* the iv field of the encrypted value as decryption reads it
IvOfEnvelope ==
    IF ~isNullOrEmpty(GetV(envelope[2], "iv"))
    THEN Buf(HexDecode(envelope[2].iv[2])) ELSE Buf(emptyBuffer)

\* C26: decryption deciphers under the iv of the encrypted value (hex-decoded, or
\* empty when the field is null, empty or absent), and the same call with any
\* other iv in its options has the same outcome
C26_IvOnlyFromEnvelope ==
    DecCalled =>
        /\ decOut.cipher.fn # "none" => decOut.cipher.iv = IvOfEnvelope
        /\ \A v \in DecryptIvValues :
              Seen(decryptWithPrivateKey(envelope, PrivateKeyOf(decArgs[2].key),
                                         WithIv(decArgs[2].options, v),
                                         decArgs[2].customAsymScheme))
                  = Seen(decOut)

\* C26 witness: a decryption whose options carry an iv other than the one of the
\* encrypted value returned the plaintext
C26_Witness ==
    /\ DecCalled
    /\ decOut.status = "ok"
    /\ decOut.value = encArgs[2].plainText
    /\ IsObj(decArgs[2].options)
    /\ ~isNullOrEmpty(GetV(decArgs[2].options[2], "iv"))
    /\ Buf(HexDecode(decArgs[2].options[2].iv[2])) # IvOfEnvelope
    /\ decOut.cipher.iv = IvOfEnvelope

----------------------------------------------------------------------------
(* the scheme comparison is conditional *)

\* the call of decryptWithPrivateKey that was made, on another encrypted value
SameCallOn(encrypted) ==
    decryptWithPrivateKey(encrypted, PrivateKeyOf(decArgs[2].key), decArgs[2].options,
                          decArgs[2].customAsymScheme)

\* the stored mac was compared with the recomputed one and they are equal
MacValidated == decOut.macs # <<>> /\ decOut.macs[1] = decOut.macs[2]

\* C27: every encrypted value encryptWithPublicKey returns carries a non-empty
\* scheme; an encrypted value whose scheme is absent, null or empty is never
\* rejected for its scheme: the call ends as it does on the same value carrying
\* the resolved scheme, and goes on to symmetricDecrypt when the mac validates
C27_SchemeCheckConditional ==
    /\ (EncCalled /\ encOut.status = "ok") => TruthyA(GetA(encOut.value[2], "scheme"))
    /\ (DecCalled /\ ~TruthyA(EnvelopeScheme))
          => /\ decOut.error # "scheme does not match"
             /\ MacValidated => "symmetricDecrypt" \in Steps(decOut)
             /\ (IsObj(decArgs[2].customAsymScheme) /\ TruthyA(ResolvedScheme(decArgs[2])))
                   => Seen(decOut)
                        = Seen(SameCallOn(WithField(envelope, "scheme",
                                                    ResolvedScheme(decArgs[2]))))

\* C27 witness: an encrypted value that lost its scheme on the way is decrypted by
\* a receiver whose resolved scheme is not the one the sender wrote
C27_Witness ==
    /\ DecCalled
    /\ tampered = "scheme"
    /\ ~TruthyA(EnvelopeScheme)
    /\ TruthyA(GetA(encOut.value[2], "scheme"))
    /\ IsObj(decArgs[2].customAsymScheme)
    /\ ResolvedScheme(decArgs[2]) # GetA(encOut.value[2], "scheme")
    /\ MacValidated
    /\ decOut.status = "ok"
    /\ decOut.value = encArgs[2].plainText

----------------------------------------------------------------------------
(* ChainEosV2 *)

\* the head block numbers a connection may report
MaxHeadBlock == 2

\* the chains the endpoints may belong to
ChainIds == {"aca376f2", "e70aaab8"}

\* what the chain state holds for a chain once connected
ChainInfos == [chainId : ChainIds, headBlockNumber : 1..MaxHeadBlock]

\* the arguments of the constructor
Endpoints == {"https://api.eos.one", "https://api.eos.two"}

\* the last member used and how it ended
Called(op, arg, out) == Ret([op |-> op, arg |-> arg, out |-> out])

\* constructor(endpoints, settings): a chain state that has not connected
ChainConstruct ==
    /\ chain = NoCall
    /\ \E endpoints \in Endpoints :
          chain' = Ret([endpoints |-> endpoints, isConnected |-> FALSE,
                        chainInfo |-> Undefined])
    /\ chainCall' = Called("constructor", Undefined, Gave(Undefined))
    /\ UNCHANGED <<cryptoVars, actionVars, ethVars, oreVars, dotVars>>

ChainConstructed == chain # NoCall

\* connect(): the chain state connects and holds the chain info, or the endpoint
\* does not answer and the chain state stays as it was
Connect ==
    /\ ChainConstructed
    /\ \/ \E info \in ChainInfos :
             /\ chain[2].chainInfo # Undefined
                   => /\ info.chainId = chain[2].chainInfo[2].chainId
                      /\ info.headBlockNumber >= chain[2].chainInfo[2].headBlockNumber
             /\ chain' = Ret([chain[2] EXCEPT !.isConnected = TRUE,
                                              !.chainInfo = <<"info", info>>])
             /\ chainCall' = Called("connect", Undefined, Gave(Undefined))
       \/ /\ chain' = chain
          /\ chainCall' = Called("connect", Undefined, Failed("endpoint unreachable"))
    /\ UNCHANGED <<cryptoVars, actionVars, ethVars, oreVars, dotVars>>

NotConnected == "Not connected to chain"

\* a guard that lets every call through
AssertNothing(chainState) == "none"

\* assertIsConnected(): the error it throws, if any
assertIsConnected(chainState) ==
    IF ~chainState.isConnected THEN NotConnected ELSE "none"

\* a member that asserts the connection first and then gives a value
Guarded(chainState, value) ==
    IF assertIsConnected(chainState) # "none"
    THEN Failed(assertIsConnected(chainState))
    ELSE Gave(value)

\* get chainId
chainId(chainState) ==
    Guarded(chainState,
            IF chainState.chainInfo = Undefined THEN Undefined
            ELSE <<"id", chainState.chainInfo[2].chainId>>)

\* get chainInfo
chainInfo(chainState) == Guarded(chainState, chainState.chainInfo)

\* get isConnected
isConnected(chainState) == Gave(Bool(chainState.isConnected))

\* new.Account(accountName): an account of the chain state, loaded when named
newAccount(chainState, accountName) ==
    Guarded(chainState,
            <<"EosAccount", chainState.endpoints,
              IF TruthyA(accountName) THEN accountName ELSE Undef>>)

\* new.CreateAccount(options)
newCreateAccount(chainState, options) ==
    Guarded(chainState, <<"EosCreateAccount", chainState.endpoints, options>>)

\* new.Transaction(options)
newTransaction(chainState, options) ==
    Guarded(chainState, <<"EosTransaction", chainState.endpoints, options>>)

\* static get description
description == Gave(<<"text", "EOS 2.x Chain">>)

GuardedMembers == {"chainId", "chainInfo", "newAccount", "newCreateAccount", "newTransaction"}
StaticMembers == {"description", "isAsymEncryptedDataString", "toAsymEncryptedDataString"}

AccountNames == {Undef, "", "alice"}
ObjectOptions == {Undef, "options"}

\* the texts handed to the static string members
StaticTexts ==
    {TextOf(shape) : shape \in [gaps : {[g \in 1..5 |-> <<10>>]},
                                words : [1..4 -> {"exact", "absent"}],
                                order : {<<1, 2, 3, 4>>}]}
    \cup {Undefined}

\* a property of the instance is read
ChainRead ==
    /\ ChainConstructed
    /\ \/ chainCall' = Called("chainId", Undefined, chainId(chain[2]))
       \/ chainCall' = Called("chainInfo", Undefined, chainInfo(chain[2]))
       \/ chainCall' = Called("isConnected", Undefined, isConnected(chain[2]))
    /\ UNCHANGED <<chain, cryptoVars, actionVars, ethVars, oreVars, dotVars>>

\* one of the new.* members is called
ChainNew ==
    /\ ChainConstructed
    /\ \/ \E accountName \in AccountNames :
             chainCall' = Called("newAccount", <<"name", accountName>>,
                                 newAccount(chain[2], accountName))
       \/ \E options \in ObjectOptions :
             chainCall' = Called("newCreateAccount", <<"name", options>>,
                                 newCreateAccount(chain[2], options))
       \/ \E options \in ObjectOptions :
             chainCall' = Called("newTransaction", <<"name", options>>,
                                 newTransaction(chain[2], options))
    /\ UNCHANGED <<chain, cryptoVars, actionVars, ethVars, oreVars, dotVars>>

\* the static members take no instance
StaticResult(member, value) ==
    IF member = "description" THEN description
    ELSE IF member = "isAsymEncryptedDataString"
    THEN Gave(Bool(isAsymEncryptedDataString(value)))
    ELSE toAsymEncryptedDataString(value)

\* a static member is used, whether an instance exists or not
ChainStatic ==
    /\ \E member \in StaticMembers, value \in StaticTexts :
          chainCall' = Called(member, value, StaticResult(member, value))
    /\ UNCHANGED <<chain, cryptoVars, actionVars, ethVars, oreVars, dotVars>>

ChainNext ==
    \/ ChainConstruct
    \/ Connect
    \/ ChainRead
    \/ ChainNew
    \/ ChainStatic

SpecChain == Init /\ [][ChainNext]_vars

\* the last member used, once one was
LastChainCall == chainCall[2]

\* the chain state has not connected: no instance yet, or no successful connect()
Unconnected == ~ChainConstructed \/ ~chain[2].isConnected

\* C22: while the chain state is not connected, chainId, chainInfo, new.Account,
\* new.CreateAccount and new.Transaction throw 'Not connected to chain' and give
\* no object; isConnected never throws and tells the connection; the static
\* members never raise that error and give what they give when connected
C22_ConnectionGuard ==
    chainCall # NoCall =>
        /\ (LastChainCall.op \in GuardedMembers /\ Unconnected)
              => LastChainCall.out = Failed(NotConnected)
        /\ LastChainCall.op = "isConnected"
              => LastChainCall.out = Gave(Bool(chain[2].isConnected))
        /\ LastChainCall.op \in StaticMembers
              => /\ LastChainCall.out.error # NotConnected
                 /\ LastChainCall.out = StaticResult(LastChainCall.op, LastChainCall.arg)

\* C22 witness: new.Transaction on an instance whose connect() failed
C22_Witness ==
    /\ chainCall # NoCall
    /\ ChainConstructed
    /\ ~chain[2].isConnected
    /\ LastChainCall.op = "newTransaction"
    /\ LastChainCall.out = Failed(NotConnected)

----------------------------------------------------------------------------
(* EosActionHelper *)

\* an array and its elements
Arr(elements) == <<"arr", elements>>
IsArr(v) == v[1] = "arr"

\* an action struct; its account is a name, the empty string or missing
ActionStruct(account, name) == <<"action", account, name>>
IsActionStruct(e) == e[1] = "action"

\* a Uint8Array and the packed transaction it holds
Uint8ArrayOf(body) == <<"u8", body>>
IsUint8Array(e) == e[1] = "u8"

\* a string of hex digits for the bytes of a Uint8Array, and a string that is no hex
HexStringOf(bytes) == <<"hexstr", bytes>>
IsHexString(e) == e[1] = "hexstr"
OtherString == <<"text", "hello">>

\* api.transact({ actions }): the packed transaction of a list of actions
Serialized(actions) == Uint8ArrayOf(<<"trx", actions>>)

\* api.deserializeTransactionWithActions(raw): the actions of a packed transaction
DeserializedActions(raw) == raw[2][2]

\* api.deserializeTransaction(raw) without its actions: the header
HeaderOf(raw) == <<"header", raw[2][2]>>

InvalidSetActions ==
    "Invalid setActions input. Needs to be a valid EosActionStruct[] OR EosSerializedTransaction"
InvalidSetter == "Invalid set actions input. Needs to be a valid EosActionStruct[]"
LengthNotOne ==
    "For setting action as serializedTransaction the input array length has to be one."

\* isNullOrEmpty of an array or any other value
IsNullOrEmptyValue(value) ==
    \/ value \in {Undefined, Null}
    \/ IsArr(value) /\ value[2] = <<>>

\* isEosActionStructArray(value); reading account of a null element throws
isEosActionStructArray(value) ==
    IF IsNullOrEmptyValue(value) \/ ~IsArr(value) THEN Gave(Bool(FALSE))
    ELSE IF value[2][1] \in {Undefined, Null} THEN Failed("TypeError")
    ELSE IF ~(IsActionStruct(value[2][1]) /\ TruthyA(value[2][1][2])) THEN Gave(Bool(FALSE))
    ELSE Gave(Bool(TRUE))

\* isSerializedEosTransaction(value)
isSerializedEosTransaction(value) ==
    IF IsNullOrEmptyValue(value) \/ ~IsArr(value) THEN Gave(Bool(FALSE))
    ELSE IF IsUint8Array(value[2][1]) \/ IsHexString(value[2][1])
    THEN (IF Len(value[2]) # 1 THEN Failed(LengthNotOne) ELSE Gave(Bool(TRUE)))
    ELSE Gave(Bool(FALSE))

\* ensureSerializedIsRaw(serializedTransaction)
ensureSerializedIsRaw(serializedTransaction) ==
    IF IsUint8Array(serializedTransaction) THEN Gave(serializedTransaction)
    ELSE IF IsHexString(serializedTransaction) THEN Gave(serializedTransaction[2])
    ELSE Failed("Missing or malformed serializedTransaction (ensureSerializedIsRaw)")

\* what a member leaves behind: the fields of the instance and its outcome
Left(fields, out) == [fields |-> fields, out |-> out]

\* set actions(actions)
SetActionsProperty(fields, actions) ==
    LET is == isEosActionStructArray(actions) IN
    IF is.status = "throw" THEN Left(fields, is)
    ELSE IF is.value = Bool(FALSE) THEN Left(fields, Failed(InvalidSetter))
    ELSE Left([fields EXCEPT !.actions = actions], Gave(Undefined))

\* setActions(actions)
setActions(fields, actions) ==
    LET cleared == [fields EXCEPT !.raw = Null]
        serialized == isSerializedEosTransaction(actions)
        struct == isEosActionStructArray(actions)
    IN
    IF serialized.status = "throw" THEN Left(cleared, serialized)
    ELSE IF serialized.value = Bool(TRUE)
    THEN LET raw == ensureSerializedIsRaw(actions[2][1]) IN
         IF raw.status = "throw" THEN Left(cleared, raw)
         ELSE Left([cleared EXCEPT !.raw = raw.value], Gave(Undefined))
    ELSE IF struct.status = "throw" THEN Left(cleared, struct)
    ELSE IF struct.value = Bool(TRUE) THEN SetActionsProperty(cleared, actions)
    ELSE Left(cleared, Failed(InvalidSetActions))

\* get raw
RawOf(fields) == IF fields.raw \in {Undefined, Null} THEN Null ELSE fields.raw

\* setActionsAndHeaderFromRaw(); the api does not deserialize a missing body
setActionsAndHeaderFromRaw(fields) ==
    IF ~fields.connected THEN Left(fields, Failed(NotConnected))
    ELSE IF RawOf(fields) = Null THEN Left(fields, Failed("deserialize"))
    ELSE SetActionsProperty([fields EXCEPT !.header = HeaderOf(RawOf(fields))],
                            Arr(DeserializedActions(RawOf(fields))))

\* serializeActions(), followed by setHeaderFromRaw()
serializeActions(fields) ==
    IF RawOf(fields) # Null THEN Left(fields, Gave(Undefined))
    ELSE IF fields.actions = Undefined THEN Left(fields, Failed("transact"))
    ELSE LET raw == ensureSerializedIsRaw(Serialized(fields.actions[2])) IN
         Left([fields EXCEPT !.raw = raw.value, !.header = HeaderOf(raw.value)],
              Gave(Undefined))

\* assertAndValidateEosActionInput(actionInput), called by the constructor
assertAndValidateEosActionInput(fields, actionInput) ==
    IF IsNullOrEmptyValue(actionInput) THEN Left(fields, Gave(Undefined))
    ELSE setActions(fields, actionInput)

TransferAction == ActionStruct("eosio.token", "transfer")
BuyRamAction == ActionStruct("eosio", "buyram")

\* what the first element of an input array may be
FirstElements ==
    {TransferAction, BuyRamAction, ActionStruct("", "transfer"),
     ActionStruct(Undef, "transfer"),
     Serialized(<<TransferAction>>), HexStringOf(Serialized(<<BuyRamAction>>)),
     OtherString, Null}

\* what may follow it
SecondElements == {BuyRamAction, Serialized(<<BuyRamAction>>)}

\* the inputs of setActions, of the setter and of the constructor
ActionInputs ==
    {Arr(<<e>>) : e \in FirstElements}
    \cup {Arr(<<e, f>>) : e \in FirstElements, f \in SecondElements}
    \cup {Undefined, Null, Arr(<<>>), TransferAction, HexStringOf(Serialized(<<TransferAction>>))}

\* new EosActionHelper(actionInput, options, chainState); no instance when the
\* constructor throws
HelperConstruct ==
    /\ actionHelper = NoCall
    /\ helperCall = NoCall
    /\ \E actionInput \in ActionInputs, connected \in BOOLEAN :
          LET left == assertAndValidateEosActionInput(
                          [connected |-> connected, actions |-> Undefined,
                           raw |-> Undefined, header |-> Undefined], actionInput)
          IN /\ actionHelper' = IF left.out.status = "ok" THEN Ret(left.fields) ELSE NoCall
             /\ helperCall' = Called("constructor", actionInput, left.out)
    /\ UNCHANGED <<cryptoVars, chainVars, ethVars, oreVars, dotVars>>

HelperMade == actionHelper # NoCall

\* helper.setActions(actions)
SetActionsCall ==
    /\ HelperMade
    /\ \E actions \in ActionInputs :
          LET left == setActions(actionHelper[2], actions) IN
          /\ actionHelper' = Ret(left.fields)
          /\ helperCall' = Called("setActions", actions, left.out)
    /\ UNCHANGED <<cryptoVars, chainVars, ethVars, oreVars, dotVars>>

\* helper.actions = actions
SetActionsPropertyCall ==
    /\ HelperMade
    /\ \E actions \in ActionInputs :
          LET left == SetActionsProperty(actionHelper[2], actions) IN
          /\ actionHelper' = Ret(left.fields)
          /\ helperCall' = Called("actions", actions, left.out)
    /\ UNCHANGED <<cryptoVars, chainVars, ethVars, oreVars, dotVars>>

\* helper.setActionsAndHeaderFromRaw()
FromRawCall ==
    /\ HelperMade
    /\ LET left == setActionsAndHeaderFromRaw(actionHelper[2]) IN
          /\ actionHelper' = Ret(left.fields)
          /\ helperCall' = Called("setActionsAndHeaderFromRaw", Undefined, left.out)
    /\ UNCHANGED <<cryptoVars, chainVars, ethVars, oreVars, dotVars>>

\* helper.serializeActions(), on a connected chain state
SerializeCall ==
    /\ HelperMade
    /\ actionHelper[2].connected
    /\ LET left == serializeActions(actionHelper[2]) IN
          /\ actionHelper' = Ret(left.fields)
          /\ helperCall' = Called("serializeActions", Undefined, left.out)
    /\ UNCHANGED <<cryptoVars, chainVars, ethVars, oreVars, dotVars>>

ActionsNext ==
    \/ HelperConstruct
    \/ SetActionsCall
    \/ SetActionsPropertyCall
    \/ FromRawCall
    \/ SerializeCall

SpecActions == Init /\ [][ActionsNext]_vars

LastHelperCall == helperCall[2]

\* the input is an array whose first element is a Uint8Array or a hex string
FirstIsSerialized(input) ==
    IsArr(input) /\ input[2] # <<>>
    /\ (IsUint8Array(input[2][1]) \/ IsHexString(input[2][1]))

\* the input is an array whose first element has an account
FirstHasAccount(input) ==
    IsArr(input) /\ input[2] # <<>>
    /\ IsActionStruct(input[2][1]) /\ TruthyA(input[2][1][2])

\* the packed transaction a serialized element stands for
RawOfElement(e) == IF IsHexString(e) THEN e[2] ELSE e

\* what setActions does with an input, as claimed
SetActionsAsClaimed(input, out, fields) ==
    IF FirstIsSerialized(input)
    THEN IF Len(input[2]) = 1
         THEN out.status = "ok" /\ fields.raw = RawOfElement(input[2][1])
         ELSE out.status = "throw"
    ELSE IF FirstHasAccount(input)
    THEN out.status = "ok" /\ fields.actions = input /\ fields.raw = Null
    ELSE ~IsNullOrEmptyValue(input) => out = Failed(InvalidSetActions)

\* C23, as claimed: setActions takes a one-element array of a serialized
\* transaction as raw, throws for a longer one, stores an array whose first element
\* has an account as actions, and throws 'Invalid setActions input' for every
\* other non-empty input
C23_SetActionsClassification ==
    (HelperMade /\ helperCall # NoCall /\ LastHelperCall.op = "setActions")
        => SetActionsAsClaimed(LastHelperCall.arg, LastHelperCall.out, actionHelper[2])

\* the classification holds for every input but an array whose first element is null
SetActionsOutcomes ==
    (HelperMade /\ helperCall # NoCall /\ LastHelperCall.op = "setActions")
        => IF LastHelperCall.arg \in {Arr(<<Null>> \o rest) : rest \in {<<>>} \cup {<<f>> : f \in SecondElements}}
           THEN LastHelperCall.out = Failed("TypeError")
           ELSE SetActionsAsClaimed(LastHelperCall.arg, LastHelperCall.out, actionHelper[2])

\* raw and actions are both set
BothSet == HelperMade /\ RawOf(actionHelper[2]) # Null /\ actionHelper[2].actions # Undefined

\* C28, as claimed: whenever raw is non-null and actions is set, raw is the
\* serialization of the current actions, and serializeActions leaves a raw body
\* for the current actions
C28_RawMatchesActions ==
    BothSet => actionHelper[2].raw = Serialized(actionHelper[2].actions[2])

\* what the members do keep: a raw body made by serializeActions or read by
\* setActionsAndHeaderFromRaw matches the actions right after that call
RawMatchesAfterConversion ==
    (HelperMade /\ helperCall # NoCall /\ LastHelperCall.out.status = "ok"
        /\ \/ LastHelperCall.op = "setActionsAndHeaderFromRaw"
           \/ LastHelperCall.op = "setActions" /\ FirstHasAccount(LastHelperCall.arg))
        => (BothSet => actionHelper[2].raw = Serialized(actionHelper[2].actions[2]))

----------------------------------------------------------------------------
(* EthereumCreateAccount *)

\* the number of key pairs the key generator may draw
NumGenerated == 2

\* how many times generatePublicKeysIfNeeded or generateKeysIfNeeded is called on
\* an instance
MaxGenerateCalls == 2

ValidPublicKeys == {"0x04aa", "0x04bb"}
OptionPublicKeys == {Undef, ""} \cup ValidPublicKeys \cup {"not-a-key"}
Passwords == {Undef, "", "pw"}
Salts == {Undef, "", "salt"}

\* the options of the constructor: none, or a publicKey and newKeysOptions, each
\* of them possibly missing
CreateAccountOptions ==
    {[given |-> FALSE, publicKey |-> Undef, newKeysOptions |-> FALSE,
      password |-> Undef, salt |-> Undef]}
    \cup {o \in [given : {TRUE}, publicKey : OptionPublicKeys, newKeysOptions : BOOLEAN,
                 password : Passwords, salt : Salts] :
             ~o.newKeysOptions => (o.password = Undef /\ o.salt = Undef)}

\* ethCrypto.ts: isValidPublicKey
isValidPublicKey(publicKey) == publicKey \in ValidPublicKeys \cup {"0x04c" \o ToString(k) : k \in 1..NumGenerated}

\* ethCrypto.ts: getEthereumAddressFromPublicKey
getEthereumAddressFromPublicKey(publicKey) == <<"address", publicKey>>

\* ethCrypto.ts: generateNewAccountKeysAndEncryptPrivateKeys(password, salt, {}),
\* for the key pair the generator draws
GeneratedAccountKeys(password, salt, k) ==
    <<"keys", "0x04c" \o ToString(k), [password |-> password, salt |-> salt]>>

NoKeysGenerated == <<"keys", Undef, [password |-> Undef, salt |-> Undef]>>

InvalidPublicKeyOption == "Invalid Option - Provided publicKey isnt valid"
PasswordAndSaltNeeded ==
    "Invalid Option - You must provide a password AND salt to generate new keys"

\* assertValidOptionPublicKeys(): the error it throws, if any
EthAssertValidOptionPublicKeys(options) ==
    IF ~options.given THEN "TypeError"
    ELSE IF TruthyA(options.publicKey) /\ ~isValidPublicKey(options.publicKey)
    THEN InvalidPublicKeyOption
    ELSE "none"

\* the check of password and salt made only when keys are to be generated
EthAssertNewKeysWhenNeeded(options) ==
    IF ~options.given THEN "TypeError"
    ELSE IF TruthyA(options.publicKey) THEN "none"
    ELSE IF ~TruthyA(options.password) \/ ~TruthyA(options.salt)
    THEN PasswordAndSaltNeeded
    ELSE "none"

\* assertValidOptionNewKeys(): the error it throws, if any
EthAssertValidOptionNewKeys(options) ==
    IF ~options.given THEN "TypeError"
    ELSE IF ~TruthyA(options.password) \/ ~TruthyA(options.salt)
    THEN PasswordAndSaltNeeded
    ELSE "none"

\* getPublicKeysFromOptions()
getPublicKeysFromOptions(options) ==
    IF ~TruthyA(options.publicKey) THEN NullS ELSE options.publicKey

\* generatePublicKeysIfNeeded(), with the key pair the generator would draw
generatePublicKeysIfNeeded(fields, k) ==
    IF EthAssertValidOptionPublicKeys(fields.options) # "none"
    THEN Left(fields, Failed(EthAssertValidOptionPublicKeys(fields.options)))
    ELSE IF EthAssertValidOptionNewKeys(fields.options) # "none"
    THEN Left(fields, Failed(EthAssertValidOptionNewKeys(fields.options)))
    ELSE
    LET fromOptions == getPublicKeysFromOptions(fields.options)
        generated == GeneratedAccountKeys(fields.options.password, fields.options.salt, k)
        publicKey == IF ~TruthyA(fromOptions) THEN generated[2] ELSE fromOptions
    IN Left([fields EXCEPT
                !.generatedKeys = IF ~TruthyA(fromOptions) THEN generated ELSE @,
                !.accountName = getEthereumAddressFromPublicKey(publicKey),
                !.accountType = "Native"],
            Gave(Undefined))

\* get generatedKeys
EthGeneratedKeys(fields) ==
    IF fields.generatedKeys # NoKeysGenerated THEN fields.generatedKeys ELSE Null

\* new EthereumCreateAccount(chainState, options)
EthConstruct ==
    /\ ethAccount = NoCall
    /\ \E options \in CreateAccountOptions :
          ethAccount' = Ret([options |-> options, accountName |-> Undefined,
                             accountType |-> Undef, generatedKeys |-> NoKeysGenerated,
                             calls |-> 0])
    /\ UNCHANGED <<ethCall, cryptoVars, chainVars, actionVars, oreVars, dotVars>>

\* createAccount.generatePublicKeysIfNeeded()
EthGenerateCall ==
    /\ ethAccount # NoCall
    /\ ethAccount[2].calls < MaxGenerateCalls
    /\ \E k \in 1..NumGenerated :
          LET left == generatePublicKeysIfNeeded(ethAccount[2], k) IN
          /\ ethAccount' = Ret([left.fields EXCEPT !.calls = @ + 1])
          /\ ethCall' = Called("generatePublicKeysIfNeeded", Ret(ethAccount[2]), left.out)
    /\ UNCHANGED <<cryptoVars, chainVars, actionVars, oreVars, dotVars>>

EthNext ==
    \/ EthConstruct
    \/ EthGenerateCall

SpecEthAccount == Init /\ [][EthNext]_vars

EthCalled == ethCall # NoCall
EthOptions == ethAccount[2].options

\* C24, as claimed: with a valid publicKey in the options, with or without
\* newKeysOptions, generatePublicKeysIfNeeded succeeds, accountName is the address
\* of that key, accountType is Native and generatedKeys stays null; with no
\* publicKey and a password and salt in newKeysOptions, keys are generated from
\* them and generatedKeys is set
C24_KeysGeneratedOnlyIfNeeded ==
    EthCalled =>
        /\ (EthOptions.given /\ EthOptions.publicKey \in ValidPublicKeys)
              => /\ ethCall[2].out.status = "ok"
                 /\ ethAccount[2].accountName
                       = getEthereumAddressFromPublicKey(EthOptions.publicKey)
                 /\ ethAccount[2].accountType = "Native"
                 /\ EthGeneratedKeys(ethAccount[2]) = Null
        /\ (EthOptions.given /\ ~TruthyA(EthOptions.publicKey)
               /\ TruthyA(EthOptions.password) /\ TruthyA(EthOptions.salt))
              => /\ ethCall[2].out.status = "ok"
                 /\ EthGeneratedKeys(ethAccount[2]) # Null
                 /\ EthGeneratedKeys(ethAccount[2])[3]
                       = [password |-> EthOptions.password, salt |-> EthOptions.salt]
                 /\ ethAccount[2].accountName
                       = getEthereumAddressFromPublicKey(EthGeneratedKeys(ethAccount[2])[2])

\* what the call does: it asks for a password and salt whether keys are to be
\* generated or not, and with them in the options it does as claimed
EthGenerateOutcomes ==
    (EthCalled /\ EthOptions.given)
        => IF TruthyA(EthOptions.publicKey) /\ ~isValidPublicKey(EthOptions.publicKey)
           THEN ethCall[2].out = Failed(InvalidPublicKeyOption)
           ELSE IF ~TruthyA(EthOptions.password) \/ ~TruthyA(EthOptions.salt)
           THEN ethCall[2].out = Failed(PasswordAndSaltNeeded)
           ELSE /\ ethCall[2].out.status = "ok"
                /\ (EthGeneratedKeys(ethAccount[2]) = Null) = TruthyA(EthOptions.publicKey)

----------------------------------------------------------------------------
(* PolkadotCreateAccount *)

ValidPolkadotPublicKeys == {"0x5caa", "0x5cbb"}
PolkadotOptionPublicKeys == {Undef, ""} \cup ValidPolkadotPublicKeys \cup {"not-a-key"}
KeypairTypes == {Undef, "ed25519", "sr25519"}

\* the options of the constructor: none, or a publicKey and newKeysOptions, each
\* of them possibly missing
PolkadotCreateAccountOptions ==
    {[given |-> FALSE, publicKey |-> Undef, newKeysOptions |-> FALSE,
      password |-> Undef, keypairType |-> Undef]}
    \cup {o \in [given : {TRUE}, publicKey : PolkadotOptionPublicKeys,
                 newKeysOptions : BOOLEAN, password : Passwords,
                 keypairType : KeypairTypes] :
             ~o.newKeysOptions => (o.password = Undef /\ o.keypairType = Undef)}

\* helpers.ts of the chain: isValidPolkadotPublicKey
isValidPolkadotPublicKey(publicKey) ==
    publicKey \in ValidPolkadotPublicKeys \cup {"0x5cc" \o ToString(k) : k \in 1..NumGenerated}

\* helpers.ts of the chain: getCurveFromKeyType
getCurveFromKeyType(type) == <<"curve", type>>

\* polkadotCrypto.ts: generateNewAccountKeysAndEncryptPrivateKeys(password,
\* keypairType, encryptionOptions), for the key pair the generator draws
GeneratedKeypair(password, keypairType, k) ==
    [publicKey |-> "0x5cc" \o ToString(k), type |-> keypairType, password |-> password]

NoKeypair == [publicKey |-> Undef, type |-> Undef, password |-> Undef]

PublicKeyIsntValid == "Invalid option - provided publicKey isnt valid"
PasswordNeeded == "Invalid Option - You must provide a password to generate new keys"

\* the check that throws for a publicKey that is not valid
AssertPublicKeyIsValid(options) ==
    IF ~options.given THEN "TypeError"
    ELSE IF TruthyA(options.publicKey) /\ ~isValidPolkadotPublicKey(options.publicKey)
    THEN PublicKeyIsntValid
    ELSE "none"

\* assertValidOptionPublicKeys(): the error it throws, if any
assertValidOptionPublicKeys(options) ==
    IF ~options.given THEN "TypeError"
    ELSE IF TruthyA(options.publicKey) /\ isValidPolkadotPublicKey(options.publicKey)
    THEN PublicKeyIsntValid
    ELSE "none"

\* assertValidOptionNewKeys(): the error it throws, if any
assertValidOptionNewKeys(options) ==
    IF ~options.given THEN "TypeError"
    ELSE IF ~TruthyA(options.password) THEN PasswordNeeded
    ELSE "none"

\* generateAccountKeys(), with the key pair the generator draws
generateAccountKeys(fields, k) ==
    LET keypair == GeneratedKeypair(fields.options.password, fields.options.keypairType, k)
    IN [fields EXCEPT !.generatedKeypair = keypair,
                      !.options.publicKey = keypair.publicKey]

\* generateKeysIfNeeded(), with the key pair the generator would draw
generateKeysIfNeeded(fields, k) ==
    IF assertValidOptionPublicKeys(fields.options) # "none"
    THEN Left(fields, Failed(assertValidOptionPublicKeys(fields.options)))
    ELSE IF assertValidOptionNewKeys(fields.options) # "none"
    THEN Left(fields, Failed(assertValidOptionNewKeys(fields.options)))
    ELSE
    LET after == IF ~TruthyA(fields.options.publicKey) THEN generateAccountKeys(fields, k)
                 ELSE fields
    IN Left([after EXCEPT !.accountType = getCurveFromKeyType(after.generatedKeypair.type)],
            Gave(Undefined))

\* get generatedKeys
PolkadotGeneratedKeys(fields) ==
    IF fields.generatedKeypair # NoKeypair THEN <<"keypair", fields.generatedKeypair>>
    ELSE Null

\* new PolkadotCreateAccount(chainState, options)
DotConstruct ==
    /\ dotAccount = NoCall
    /\ \E options \in PolkadotCreateAccountOptions :
          dotAccount' = Ret([options |-> options, accountType |-> Undefined,
                             generatedKeypair |-> NoKeypair, calls |-> 0])
    /\ UNCHANGED <<dotCall, cryptoVars, chainVars, actionVars, ethVars, oreVars>>

\* createAccount.generateKeysIfNeeded()
DotGenerateCall ==
    /\ dotAccount # NoCall
    /\ dotAccount[2].calls < MaxGenerateCalls
    /\ \E k \in 1..NumGenerated :
          LET left == generateKeysIfNeeded(dotAccount[2], k) IN
          /\ dotAccount' = Ret([left.fields EXCEPT !.calls = @ + 1])
          /\ dotCall' = Called("generateKeysIfNeeded", Ret(dotAccount[2]), left.out)
    /\ UNCHANGED <<cryptoVars, chainVars, actionVars, ethVars, oreVars>>

DotNext ==
    \/ DotConstruct
    \/ DotGenerateCall

SpecDotAccount == Init /\ [][DotNext]_vars

DotCalled == dotCall # NoCall

\* the instance as the last call found it
DotBefore == dotCall[2].arg[2]

\* the options of the last call carried a publicKey
DotKeySupplied == DotBefore.options.given /\ TruthyA(DotBefore.options.publicKey)

\* C30, as claimed: generateKeysIfNeeded raises the 'provided publicKey isnt valid'
\* error exactly when the options carry a publicKey that is not a valid Polkadot
\* public key; when they carry a publicKey no key pair is generated: generatedKeys
\* and options.publicKey stay as they were
C30_InvalidKeyRejected ==
    DotCalled =>
        /\ (dotCall[2].out = Failed(PublicKeyIsntValid))
              = (DotKeySupplied /\ ~isValidPolkadotPublicKey(DotBefore.options.publicKey))
        /\ DotKeySupplied
              => /\ PolkadotGeneratedKeys(dotAccount[2]) = PolkadotGeneratedKeys(DotBefore)
                 /\ dotAccount[2].options.publicKey = DotBefore.options.publicKey

\* what the call does: it raises that error exactly for a publicKey that is valid,
\* and generates a key pair only when the options carry no publicKey
DotGenerateOutcomes ==
    DotCalled =>
        /\ (dotCall[2].out = Failed(PublicKeyIsntValid))
              = (DotKeySupplied /\ isValidPolkadotPublicKey(DotBefore.options.publicKey))
        /\ DotKeySupplied
              => /\ PolkadotGeneratedKeys(dotAccount[2]) = PolkadotGeneratedKeys(DotBefore)
                 /\ dotAccount[2].options.publicKey = DotBefore.options.publicKey
        /\ (dotCall[2].out.status = "ok" /\ ~DotKeySupplied)
              => /\ PolkadotGeneratedKeys(dotAccount[2]) # Null
                 /\ dotAccount[2].options.publicKey = dotAccount[2].generatedKeypair.publicKey

----------------------------------------------------------------------------
(* ore_createAccount: composeAction and decomposeAction *)

actionName == "createoreacc"

EosEntityNames == {"alice", "bob.ore", "system.ore", "active", "owner", "app.oreid"}
EosPublicKeys == {"EOS5vf6m", "EOS7ent7k", "EOS8KeyQh"}

\* helpers of the chain: toEosEntityName, for a valid name or the empty string
toEosEntityName(name) ==
    IF name = "" THEN NullS ELSE IF name \in EosEntityNames THEN name ELSE "#throw"

\* helpers of the chain: toEosEntityNameOrNull
toEosEntityNameOrNull(name) == IF name \in EosEntityNames THEN name ELSE NullS

\* helpers of the chain: toEosPublicKey
toEosPublicKey(key) == IF key \in EosPublicKeys THEN key ELSE "#throw"

\* helpers of the chain: getFirstAuthorizationIfOnlyOneExists
getFirstAuthorizationIfOnlyOneExists(authorization) ==
    IF Len(authorization) = 1 THEN authorization[1]
    ELSE [actor |-> NullS, permission |-> NullS]

\* composeAction(params)
composeAction(params) ==
    [account |-> toEosEntityName("system.ore"),
     name |-> actionName,
     authorization |-> <<[actor |-> params.creatorAccountName,
                          permission |-> params.creatorPermission]>>,
     data |-> [creator |-> params.creatorAccountName,
               newname |-> params.accountName,
               ownerkey |-> params.publicKeyOwner,
               activekey |-> params.publicKeyActive,
               tier |-> params.tier,
               referral |-> OrElse(params.referralAccountName, "")]]

\* the arguments decomposeAction reads, each key from the field of its own name
ArgsOfOwnNames(data, auth) ==
    [accountName |-> toEosEntityName(data.newname),
     creatorAccountName |-> toEosEntityName(data.creator),
     creatorPermission |-> toEosEntityNameOrNull(auth.permission),
     publicKeyActive |-> toEosPublicKey(data.activekey),
     publicKeyOwner |-> toEosPublicKey(data.ownerkey),
     tier |-> data.tier,
     referralAccountName |-> toEosEntityName(data.referral)]

\* the returnData of decomposeAction
ReturnData(data, auth) ==
    [accountName |-> toEosEntityName(data.newname),
     creatorAccountName |-> toEosEntityName(data.creator),
     creatorPermission |-> toEosEntityNameOrNull(auth.permission),
     publicKeyActive |-> toEosPublicKey(data.ownerkey),
     publicKeyOwner |-> toEosPublicKey(data.activekey),
     tier |-> data.tier,
     referralAccountName |-> toEosEntityName(data.referral)]

\* decomposeAction(action)
decomposeAction(action) ==
    IF action.name = actionName /\ TruthyA(action.data.creator)
       /\ TruthyA(action.data.newname) /\ TruthyA(action.data.ownerkey)
       /\ TruthyA(action.data.activekey)
    THEN LET auth == getFirstAuthorizationIfOnlyOneExists(action.authorization)
             returnData == ReturnData(action.data, auth)
         IN IF \E f \in DOMAIN returnData : returnData[f] = "#throw"
            THEN Failed("Not a valid EOS value")
            ELSE Gave(<<"decomposed",
                        [chainActionType |-> "OreCreateAccount", args |-> returnData,
                         partial |-> ~TruthyA(returnData.creatorPermission)]>>)
    ELSE Gave(Null)

\* the parameter sets of composeAction
OreCreateAccountParams ==
    [accountName : {"alice", "bob.ore"},
     creatorAccountName : {"system.ore", "app.oreid"},
     creatorPermission : {"active", "owner"},
     publicKeyActive : EosPublicKeys,
     publicKeyOwner : EosPublicKeys,
     tier : {"1", "2"},
     referralAccountName : {Undef, "alice"}]

\* an action is composed from a parameter set and decomposed again
OreComposeDecompose ==
    /\ oreIn = NoCall
    /\ \E params \in OreCreateAccountParams :
          /\ oreIn' = Ret(params)
          /\ oreOut' = Ret([action |-> composeAction(params),
                            decomposed |-> decomposeAction(composeAction(params))])
    /\ UNCHANGED <<cryptoVars, chainVars, actionVars, ethVars, dotVars>>

\* an action of another name, or one that lost a field or gained an
\* authorization, is decomposed
OreDecomposeOther ==
    /\ oreIn = NoCall
    /\ \E params \in OreCreateAccountParams :
          \E action \in {[composeAction(params) EXCEPT !.name = "transfer"],
                          [composeAction(params) EXCEPT !.data.ownerkey = ""],
                          [composeAction(params) EXCEPT
                              !.authorization = @ \o @]} :
             /\ params.referralAccountName = Undef
             /\ params.tier = "1"
             /\ oreIn' = <<"other", params>>
             /\ oreOut' = Ret([action |-> action, decomposed |-> decomposeAction(action)])
    /\ UNCHANGED <<cryptoVars, chainVars, actionVars, ethVars, dotVars>>

OreNext ==
    \/ OreComposeDecompose
    \/ OreDecomposeOther

SpecOre == Init /\ [][OreNext]_vars

\* an action was composed from a parameter set and decomposed
OreRoundTrip == oreIn # NoCall /\ oreIn[1] = "ret"

OreDecomposed == oreOut[2].decomposed

\* C29, as claimed: decomposeAction(composeAction(p)) gives the action type
\* OreCreateAccount, every argument equal to the field of p of the same name
\* (the active key as publicKeyActive, the owner key as publicKeyOwner), and
\* partial false
C29_OreCreateAccountRoundTrip ==
    OreRoundTrip =>
        /\ OreDecomposed.status = "ok"
        /\ OreDecomposed.value # Null
        /\ OreDecomposed.value[2].chainActionType = "OreCreateAccount"
        /\ \A f \in {"accountName", "creatorAccountName", "creatorPermission",
                      "publicKeyActive", "publicKeyOwner", "tier"} :
              OreDecomposed.value[2].args[f] = oreIn[2][f]
        /\ ~OreDecomposed.value[2].partial

\* what the round trip does give back: every argument but the two keys, which
\* come back under each other's name
OreRoundTripSwapsKeys ==
    OreRoundTrip =>
        /\ OreDecomposed.status = "ok"
        /\ OreDecomposed.value # Null
        /\ OreDecomposed.value[2].chainActionType = "OreCreateAccount"
        /\ \A f \in {"accountName", "creatorAccountName", "creatorPermission", "tier"} :
              OreDecomposed.value[2].args[f] = oreIn[2][f]
        /\ OreDecomposed.value[2].args.publicKeyActive = oreIn[2].publicKeyOwner
        /\ OreDecomposed.value[2].args.publicKeyOwner = oreIn[2].publicKeyActive
        /\ ~OreDecomposed.value[2].partial

====
